---- MODULE Spec2Model ----
(***************************************************************************)
(* Documentation-code consistency engine (ultra-doc scripts).              *)
(*                                                                         *)
(* The stages are Node scripts that communicate through JSON files in      *)
(* context_for_llms/.  The state is the file system the scripts read (the  *)
(* source files, the documents, CODE_POINTERS.json, the git history) and   *)
(* the report files they write.  Every stage is one action; the editing of *)
(* files between two stages is the environment.                            *)
(*                                                                         *)
(* Text is modelled as sequences of one-character strings so that the      *)
(* substring, prefix and basename operations of the code are computed and  *)
(* not assumed.  Time is counted in hours.                                 *)
(***************************************************************************)
EXTENDS Integers, Sequences, FiniteSets, TLC

VARIABLES
  now,          \* the clock (new Date()), in hours
  srcExists,    \* the source files present in the working tree
  srcMtime,     \* path -> modification time
  docs,         \* document name -> [mtime, content, wordCount]
  codePointers, \* content of CODE_POINTERS.json
  gitRepo,      \* git rev-parse succeeds
  gitDiffOk,    \* git diff succeeds
  gitLog,       \* the commits of the last 30 days, newest first
  docState,     \* content of DOC_STATE.json
  coverage,     \* content of COVERAGE.json
  validation,   \* content of VALIDATION.json
  changeReport, \* content of CODE_CHANGES.json
  resolved,     \* result of the last matchReferencesToFiles call
  docsRoot,     \* the directory context_for_llms exists
  aux,          \* the other files the stages write into context_for_llms
  exitStatus,   \* exit status of the last stage, Null while one is running
  run,          \* the orchestrator: its position and what it has seen
  sync,         \* sync-all-repos.sh: its position, and the repositories
  edits,        \* the number of edits the environment has made
  lastOp        \* the operation that produced this state

vars == <<now, srcExists, srcMtime, docs, codePointers, gitRepo, gitDiffOk, gitLog,
          docState, coverage, validation, changeReport, resolved, docsRoot, aux,
          exitStatus, run, sync, edits, lastOp>>

\* what no stage writes: the tree, the documents and the history
inputs == <<now, srcExists, srcMtime, docs, gitRepo, gitDiffOk, gitLog, docsRoot, edits>>

----------------------------------------------------------------------------
(* Generic helpers                                                         *)

Null == -1

Range(s) == {s[i] : i \in 1..Len(s)}

RECURSIVE Flatten(_)
Flatten(ss) == IF ss = <<>> THEN <<>> ELSE Head(ss) \o Flatten(Tail(ss))

\* the duplicate-free sequences over S of length at most n
SeqsUpTo(S, n) ==
  {s \in UNION {[1..k -> S] : k \in 0..n} : \A i, j \in 1..Len(s) : i # j => s[i] # s[j]}

----------------------------------------------------------------------------
(* String operations of JavaScript and of Node's path module               *)

\* String.prototype.includes
includes(s, sub) ==
  \E i \in 0..(Len(s) - Len(sub)) : SubSeq(s, i + 1, i + Len(sub)) = sub

\* String.prototype.startsWith
startsWith(s, pre) ==
  Len(pre) <= Len(s) /\ SubSeq(s, 1, Len(pre)) = pre

\* String.prototype.endsWith
endsWith(s, suf) ==
  Len(suf) <= Len(s) /\ SubSeq(s, Len(s) - Len(suf) + 1, Len(s)) = suf

\* String.prototype.lastIndexOf, 1-based, 0 when absent
lastIndexOf(s, c) ==
  IF \E i \in 1..Len(s) : s[i] = c
  THEN CHOOSE i \in 1..Len(s) : s[i] = c /\ \A j \in (i + 1)..Len(s) : s[j] # c
  ELSE 0

\* String.prototype.indexOf, 1-based, 0 when absent
indexOf(s, c) ==
  IF \E i \in 1..Len(s) : s[i] = c
  THEN CHOOSE i \in 1..Len(s) : s[i] = c /\ \A j \in 1..(i - 1) : s[j] # c
  ELSE 0

\* key.split('#')[0]
splitHash0(key) ==
  IF indexOf(key, "#") = 0 THEN key ELSE SubSeq(key, 1, indexOf(key, "#") - 1)

\* path.basename(p)
basename(p) == SubSeq(p, lastIndexOf(p, "/") + 1, Len(p))

\* path.extname(p): from the last dot of the basename, empty when the
\* basename has no dot or only a leading one
extname(p) ==
  LET b == basename(p)
      i == lastIndexOf(b, ".")
  IN  IF i <= 1 THEN <<>> ELSE SubSeq(b, i, Len(b))

\* path.basename(p, ext)
basenameExt(p, ext) ==
  LET b == basename(p)
  IN  IF ext # <<>> /\ b # ext /\ endsWith(b, ext)
      THEN SubSeq(b, 1, Len(b) - Len(ext))
      ELSE b

----------------------------------------------------------------------------
(* The universe of the model: paths, document names, pointer-map keys      *)

SrcUtilsJs   == <<"s", "/", "u", ".", "j", "s">>        \* src/utils.js
SrcMyUtilsJs == <<"s", "/", "m", "u", ".", "j", "s">>   \* src/myutils.js
LibUtilsTs   == <<"l", "/", "u", ".", "t", "s">>        \* lib/utils.ts
SrcFooTs     == <<"s", "/", "f", ".", "t", "s">>        \* src/foo.ts
LibUtilsJs   == <<"l", "/", "u", ".", "j", "s">>        \* lib/utils.js

Paths == {SrcUtilsJs, SrcMyUtilsJs, LibUtilsTs, SrcFooTs, LibUtilsJs}

DocA == <<"a", ".", "m", "d">>                          \* a.md
DocB == <<"b", ".", "m", "d">>                          \* b.md

DocNames == {DocA, DocB}

\* fs.readdirSync lists a directory in name order
DocOrder == <<DocA, DocB>>

KeyA  == <<"a", ".", "m", "d">>                         \* "a.md"
KeyAS == <<"a", ".", "m", "d", "#", "s">>               \* "a.md#s"
KeyBS == <<"b", ".", "m", "d", "#", "s">>               \* "b.md#s"

\* hours in a day: the code divides milliseconds by 1000 * 60 * 60 * 24
Day == 24

\* the time at which the documents of the initial tree were last edited
T0 == 40 * Day

\* the clock of the initial state
Now0 == T0 + 31 * Day

\* modification times relative to T0 that straddle every threshold
Offsets == {-1, 0, 1, 3 * Day, 3 * Day + 1, 7 * Day, 7 * Day + 1,
            30 * Day, 30 * Day + 1}

----------------------------------------------------------------------------
(* CODE_POINTERS.json                                                      *)
(*                                                                         *)
(* kind "absent":    the file does not exist (the readers then use {}).    *)
(* kind "entries":   the layout the readers look for,                      *)
(*                   { "<doc>#<section>": { files, lastValidated } }.      *)
(* kind "generated": the layout generateCodePointers writes,               *)
(*                   { generated, total_source_files, total_mappings,      *)
(*                     mappings: { <doc>: { <file>: [reasons] } } }.        *)

NoPointers == [kind |-> "absent", entries |-> <<>>, mappings |-> <<>>, total |-> 0]

EntriesFile(es) == [kind |-> "entries", entries |-> es, mappings |-> <<>>, total |-> 0]

GeneratedFile(ms, n) == [kind |-> "generated", entries |-> <<>>, mappings |-> ms, total |-> n]

KeyGenerated == <<"g", "e", "n", "e", "r", "a", "t", "e", "d">>
KeyTotalSrc  == <<"t", "o", "t", "a", "l", "_", "s", "o", "u", "r", "c", "e">>
KeyTotalMap  == <<"t", "o", "t", "a", "l", "_", "m", "a", "p">>
KeyMappings  == <<"m", "a", "p", "p", "i", "n", "g", "s">>

\* Object.entries(codePointers) as every reader sees it: the key, whether
\* value.files is truthy, value.files and value.lastValidated.  The four
\* top-level values generateCodePointers writes are a string, two numbers
\* and the mappings object (its keys are document names, which end in .md,
\* so it has no member "files"): value.files is undefined for each.
ObjectEntries(cp) ==
  CASE cp.kind = "absent"    -> <<>>
    [] cp.kind = "entries"   ->
         [i \in 1..Len(cp.entries) |->
            [key |-> cp.entries[i].key, hasFiles |-> TRUE,
             files |-> cp.entries[i].files,
             lastValidated |-> cp.entries[i].lastValidated]]
    [] cp.kind = "generated" ->
         [i \in 1..4 |->
            [key |-> <<KeyGenerated, KeyTotalSrc, KeyTotalMap, KeyMappings>>[i],
             hasFiles |-> FALSE, files |-> <<>>, lastValidated |-> Null]]

\* the pointer maps in the readers' layout with at most n entries over the
\* given keys, file lists and lastValidated values
EntryMaps(keys, fileLists, lvs, n) ==
  {EntriesFile(es) : es \in
     {s \in UNION {[1..k -> [key : keys, files : fileLists, lastValidated : lvs]]
                     : k \in 0..n} :
        \A i, j \in 1..Len(s) : i # j => s[i].key # s[j].key}}

----------------------------------------------------------------------------
(* File-system reads                                                       *)

\* fs.existsSync(path.join(process.cwd(), f)) for a repository-relative f
existsSync(f) == f \in srcExists

\* getFileModTime: the mtime, null when stat fails
getFileModTime(f) == IF f \in srcExists THEN srcMtime[f] ELSE Null

----------------------------------------------------------------------------
(* analyze-doc-state.mjs (src/unnamed/part_002)                            *)

\* Math.ceil(Math.abs(d2 - d1) / (1000 * 60 * 60 * 24))
daysBetween(date1, date2) ==
  LET diffTime == IF date2 >= date1 THEN date2 - date1 ELSE date1 - date2
  IN  (diffTime + Day - 1) \div Day

calculateStaleRiskNoGuard(docUpdateTime, codeChangeTime) ==
  IF codeChangeTime = Null THEN "none"
  ELSE LET daysSinceDocUpdate == daysBetween(docUpdateTime, codeChangeTime)
       IN  IF daysSinceDocUpdate > 30 THEN "critical"
           ELSE IF daysSinceDocUpdate > 7 THEN "high"
           ELSE IF daysSinceDocUpdate > 3 THEN "medium"
           ELSE "low"

calculateStaleRiskFloor(docUpdateTime, codeChangeTime) ==
  IF codeChangeTime = Null THEN "none"
  ELSE IF docUpdateTime >= codeChangeTime THEN "none"
  ELSE LET daysSinceDocUpdate == (codeChangeTime - docUpdateTime) \div Day
       IN  IF daysSinceDocUpdate > 30 THEN "critical"
           ELSE IF daysSinceDocUpdate > 7 THEN "high"
           ELSE IF daysSinceDocUpdate > 3 THEN "medium"
           ELSE "low"

calculateStaleRisk(docUpdateTime, codeChangeTime) ==
  IF codeChangeTime = Null THEN "none"
  ELSE IF docUpdateTime >= codeChangeTime THEN "none"
  ELSE LET daysSinceDocUpdate == daysBetween(docUpdateTime, codeChangeTime)
       IN  IF daysSinceDocUpdate > 30 THEN "critical"
           ELSE IF daysSinceDocUpdate > 7 THEN "high"
           ELSE IF daysSinceDocUpdate > 3 THEN "medium"
           ELSE "low"

----------------------------------------------------------------------------
(* Documents.  A document is a sequence of lines; a line is                *)
(*   heading   "# ..."                                                     *)
(*   prose     running text                                                *)
(*   fence     "```" followed by the info string v                         *)
(*   import    import x from '<v>'                                         *)
(*   class     class <v> {                                                 *)
(*   func      function <v>() {                                            *)
(*   inline    text holding the inline-code span `<v>`                     *)
(* and w is the number of whitespace-separated words on the line.          *)

Line(t, v, w) == [t |-> t, v |-> v, w |-> w]

RECURSIVE SumWords(_)
SumWords(content) ==
  IF content = <<>> THEN 0 ELSE Head(content).w + SumWords(Tail(content))

CountLines(content, t) == Cardinality({i \in 1..Len(content) : content[i].t = t})

\* a score that gives the 0.2 of the examples for a pointer map on disk
analyzeMarkdownFileLinked(content) ==
  LET sectionCount == CountLines(content, "heading")
      wordCount    == SumWords(content)
      completeness == (IF sectionCount > 0 THEN 3 ELSE 0)
                    + (IF wordCount > 200 THEN 3 ELSE 0)
                    + (IF codePointers.kind # "absent" THEN 2 ELSE 0)
                    + (IF wordCount > 500 THEN 2 ELSE 0)
  IN  [sectionCount |-> sectionCount, wordCount |-> wordCount,
       completeness |-> IF completeness > 10 THEN 10 ELSE completeness]

\* completeness in tenths: 0.3 for a heading, 0.3 for more than 200 words,
\* 0.2 for a code block, 0.2 for more than 500 words, capped at 1.0
analyzeMarkdownFile(content) ==
  LET sectionCount == CountLines(content, "heading")
      wordCount    == SumWords(content)
      fences       == CountLines(content, "fence")   \* codeBlocks = fences / 2
      completeness == (IF sectionCount > 0 THEN 3 ELSE 0)
                    + (IF wordCount > 200 THEN 3 ELSE 0)
                    + (IF fences > 0 THEN 2 ELSE 0)
                    + (IF wordCount > 500 THEN 2 ELSE 0)
  IN  [sectionCount |-> sectionCount, wordCount |-> wordCount,
       completeness |-> IF completeness > 10 THEN 10 ELSE completeness]

\* the entries of the pointer map analyzeDocState links to a document:
\* key.startsWith(fileName) and value.files
LinkedEntries(fileName, cp) ==
  SelectSeq(ObjectEntries(cp), LAMBDA e : startsWith(e.key, fileName) /\ e.hasFiles)

\* linkedFiles.push(...value.files) over the linked entries
linkedFilesOf(fileName, cp) ==
  LET es == LinkedEntries(fileName, cp)
  IN  Flatten([i \in 1..Len(es) |-> es[i].files])

RECURSIVE lastCodeChangeOf(_, _)
\* the loop that keeps the latest modification time of the linked files
lastCodeChangeOf(files, lastCodeChange) ==
  IF files = <<>> THEN lastCodeChange
  ELSE LET modTime == getFileModTime(Head(files))
       IN  lastCodeChangeOf(Tail(files),
             IF modTime # Null /\ (lastCodeChange = Null \/ modTime > lastCodeChange)
             THEN modTime ELSE lastCodeChange)

\* the entry of state.files for one document
DocStateEntry(d) ==
  LET analysis       == analyzeMarkdownFile(docs[d].content)
      linkedFiles    == linkedFilesOf(d, codePointers)
      lastCodeChange == lastCodeChangeOf(linkedFiles, Null)
      staleRisk      == calculateStaleRisk(docs[d].mtime, lastCodeChange)
      status         == IF staleRisk = "none" \/ staleRisk = "low"
                        THEN "current" ELSE "stale"
  IN  [status |-> status, completeness |-> analysis.completeness,
       lastUpdated |-> docs[d].mtime, linkedFiles |-> linkedFiles,
       lastCodeChange |-> lastCodeChange, validationNeeded |-> (status = "stale"),
       staleRisk |-> staleRisk]

NoDocState == [present |-> FALSE, files |-> <<>>, stale_docs |-> 0,
               complete_docs |-> 0, incomplete_docs |-> 0]

\* process.exit(1) when the documentation directory is missing; the report
\* otherwise
analyzeDocState ==
  /\ IF ~docsRoot
     THEN exitStatus' = 1 /\ UNCHANGED docState
     ELSE /\ docState' =
               LET files == [d \in DocNames |-> DocStateEntry(d)]
               IN  [present |-> TRUE, files |-> files,
                    stale_docs |-> Cardinality({d \in DocNames : files[d].status = "stale"}),
                    complete_docs |->
                      Cardinality({d \in DocNames : files[d].completeness >= 7}),
                    incomplete_docs |->
                      Cardinality({d \in DocNames : files[d].completeness < 7})]
          /\ exitStatus' = 0
  /\ lastOp' = "analyzeDocState"
  /\ UNCHANGED <<inputs, codePointers, coverage, validation, changeReport, resolved, aux, run, sync>>

----------------------------------------------------------------------------
(* add-code-pointers.mjs (src/ultra-doc/check-external-links.mjs, second   *)
(* script of the file): the Reference Extractor and the Source Resolver    *)

ExtJs   == <<".", "j", "s">>
ExtTs   == <<".", "t", "s">>
ExtJsx  == <<".", "j", "s", "x">>
ExtTsx  == <<".", "t", "s", "x">>
ExtPy   == <<".", "p", "y">>
ExtGo   == <<".", "g", "o">>
ExtRs   == <<".", "r", "s">>
ExtJava == <<".", "j", "a", "v", "a">>
ExtRb   == <<".", "r", "b">>
ExtPhp  == <<".", "p", "h", "p">>

sourceExtensions == {ExtJs, ExtTs, ExtJsx, ExtTsx, ExtPy, ExtGo, ExtRs, ExtJava, ExtRb, ExtPhp}

\* git ls-files lists the tracked files in path order
PathOrder == <<LibUtilsJs, LibUtilsTs, SrcFooTs, SrcMyUtilsJs, SrcUtilsJs>>

\* the files of the tree whose name ends in a source extension
findSourceFiles ==
  SelectSeq(PathOrder,
            LAMBDA f : f \in srcExists /\ \E ext \in sourceExtensions : endsWith(f, ext))

\* the characters of the model's alphabet that \w does not match
NonWordChars == {"/", ".", "#", "+", "-", " "}

\* [\w]* matches the whole info string
IsWord(v) == \A i \in 1..Len(v) : v[i] \notin NonWordChars

IsFence(l) == l.t = "fence"

\* the indices of the lines a pattern can start at: the fences, and the
\* fences followed only by word characters
Fences(content) == {j \in 1..Len(content) : IsFence(content[j])}

WordFences(content) == {j \in Fences(content) : IsWord(content[j].v)}

\* the next match of a pattern from line i on: the least index >= i among
\* the lines it can start at, 0 when there is none
NextLine(at, i) ==
  IF \E j \in at : j >= i
  THEN CHOOSE j \in at : j >= i /\ \A k \in at : k >= i => j <= k
  ELSE 0

RECURSIVE CodeBlocks(_, _)
\* the successive matches of /```[\w]*\n([\s\S]*?)```/g from line i on: an
\* opening fence is a "```" followed by word characters and a newline, the
\* block runs lazily to the next "```" of any kind, and the search resumes
\* after it
CodeBlocks(content, i) ==
  LET open == NextLine(WordFences(content), i)
  IN  IF open = 0 THEN <<>>
      ELSE LET close == NextLine(Fences(content), open + 1)
           IN  IF close = 0 THEN <<>>
               ELSE <<SubSeq(content, open + 1, close - 1)>>
                    \o CodeBlocks(content, close + 1)

\* the references of one block: the imports, then the classes, then the
\* functions, each in text order
BlockReferences(block) ==
  LET Of(t, type) ==
        LET ls == SelectSeq(block, LAMBDA l : l.t = t)
        IN  [i \in 1..Len(ls) |-> [type |-> type, value |-> ls[i].v]]
  IN  Of("import", "import") \o Of("class", "class") \o Of("func", "function")

extractCodeReferencesInline(content) ==
  LET ls == SelectSeq(content, LAMBDA l : l.t = "import" \/ l.t = "inline")
  IN  [i \in 1..Len(ls) |-> [type |-> "import", value |-> ls[i].v]]

extractCodeReferences(content) ==
  LET blocks == CodeBlocks(content, 1)
  IN  Flatten([i \in 1..Len(blocks) |-> BlockReferences(blocks[i])])

\* the identifiers each source file defines with class, function, def or fn
NameFoo == <<"F", "o", "o">>
NameRun == <<"r", "u", "n">>

SourceDefs(f) ==
  CASE f = SrcFooTs   -> {NameFoo}
    [] f = SrcUtilsJs -> {NameRun}
    [] OTHER          -> {}

\* the files an import reference is matched to
ImportCandidatesStem(ref, sourceFiles) ==
  SelectSeq(sourceFiles,
            LAMBDA f : basenameExt(f, extname(f)) = basename(ref.value))

ImportCandidates(ref, sourceFiles) ==
  SelectSeq(sourceFiles,
            LAMBDA f : \/ includes(f, ref.value)
                       \/ basenameExt(f, extname(f)) = basename(ref.value))

\* the pointers of one reference
PointersOf(ref, sourceFiles) ==
  IF ref.type = "import"
  THEN LET candidates == ImportCandidates(ref, sourceFiles)
       IN  [i \in 1..Len(candidates) |->
              [file |-> candidates[i],
               reason |-> [kind |-> "imports", value |-> ref.value]]]
  ELSE LET defining == SelectSeq(sourceFiles,
                                 LAMBDA f : existsSync(f) /\ ref.value \in SourceDefs(f))
       IN  [i \in 1..Len(defining) |->
              [file |-> defining[i],
               reason |-> [kind |-> "defines " \o ref.type, value |-> ref.value]]]

matchReferencesToFiles(references, sourceFiles) ==
  Flatten([i \in 1..Len(references) |-> PointersOf(references[i], sourceFiles)])

RECURSIVE GroupPointersAll(_, _)
\* a reduce that pushes every reason
GroupPointersAll(pointers, acc) ==
  IF pointers = <<>> THEN acc
  ELSE LET p == Head(pointers)
           at == NextLine({k \in 1..Len(acc) : acc[k].file = p.file}, 1)
       IN  GroupPointersAll(Tail(pointers),
             IF at = 0
             THEN Append(acc, [file |-> p.file, reasons |-> <<p.reason>>])
             ELSE [acc EXCEPT ![at].reasons = Append(@, p.reason)])

RECURSIVE GroupPointers(_, _)
\* pointers.reduce(...): file -> reasons, files in order of first pointer,
\* a reason kept once per file
GroupPointers(pointers, acc) ==
  IF pointers = <<>> THEN acc
  ELSE LET p == Head(pointers)
           at == NextLine({k \in 1..Len(acc) : acc[k].file = p.file}, 1)
       IN  GroupPointers(Tail(pointers),
             IF at = 0
             THEN Append(acc, [file |-> p.file, reasons |-> <<p.reason>>])
             ELSE IF p.reason \in Range(acc[at].reasons)
             THEN acc
             ELSE [acc EXCEPT ![at].reasons = Append(@, p.reason)])

\* a resolver that adds to the mappings of the file on disk
MappingsAppend(sourceFiles) ==
  LET Of(d) == matchReferencesToFiles(extractCodeReferences(docs[d].content), sourceFiles)
      ds == SelectSeq(DocOrder, LAMBDA d : Len(Of(d)) > 0)
  IN  (IF codePointers.kind = "generated" THEN codePointers.mappings ELSE <<>>)
        \o [i \in 1..Len(ds) |-> [doc |-> ds[i], files |-> GroupPointers(Of(ds[i]), <<>>)]]

\* mappings: one member per document with at least one pointer
Mappings(sourceFiles) ==
  LET Of(d) == matchReferencesToFiles(extractCodeReferences(docs[d].content), sourceFiles)
      ds == SelectSeq(DocOrder, LAMBDA d : Len(Of(d)) > 0)
  IN  [i \in 1..Len(ds) |-> [doc |-> ds[i], files |-> GroupPointers(Of(ds[i]), <<>>)]]

\* process.exit(1) when the documentation directory is missing; the map
\* otherwise
generateCodePointers ==
  /\ IF ~docsRoot
     THEN exitStatus' = 1 /\ UNCHANGED codePointers
     ELSE /\ codePointers' = GeneratedFile(Mappings(findSourceFiles), Len(findSourceFiles))
          /\ exitStatus' = 0
  /\ lastOp' = "generateCodePointers"
  /\ UNCHANGED <<inputs, docState, coverage, validation, changeReport, resolved, aux, run, sync>>

----------------------------------------------------------------------------
(* analyze-coverage.mjs                                                    *)

CODE_EXTENSIONS == {ExtJs, ExtTs, ExtJsx, ExtTsx, ExtPy, ExtGo, ExtRs, ExtJava}

\* process.cwd(), as a path prefix
Cwd == <<"/", "r", "/">>

\* the absolute paths of the tree's files whose extname is allow-listed
getAllCodeFiles ==
  LET fs == SelectSeq(PathOrder,
                      LAMBDA f : f \in srcExists /\ extname(f) \in CODE_EXTENSIONS)
  IN  [i \in 1..Len(fs) |-> Cwd \o fs[i]]

\* path.relative(process.cwd(), filePath)
relative(filePath) ==
  IF startsWith(filePath, Cwd) THEN SubSeq(filePath, Len(Cwd) + 1, Len(filePath))
  ELSE filePath

\* the import lines of each source file: the module named, the form of the
\* line (import x from '<module>', or const x = require('<module>')), and
\* how many lines of the file have it
ModU == <<".", "/", "u">>
ModF == <<".", "/", "f">>

SourceImports(f) ==
  CASE f = SrcFooTs     -> <<[module |-> ModU, form |-> "import", times |-> 3]>>
    [] f = SrcMyUtilsJs -> <<[module |-> ModU, form |-> "import", times |-> 2],
                             [module |-> ModU, form |-> "require", times |-> 1]>>
    [] f = LibUtilsJs   -> <<[module |-> ModF, form |-> "import", times |-> 5]>>
    [] f = LibUtilsTs   -> <<[module |-> ModF, form |-> "import", times |-> 1]>>
    [] OTHER            -> <<>>

RECURSIVE SumSeq(_)
SumSeq(ns) == IF ns = <<>> THEN 0 ELSE Head(ns) + SumSeq(Tail(ns))

\* the matches, in one file, of the four import patterns for a file name:
\* from '...<name>' and import ...<name> match every import line of a
\* module ending in (containing) the name, the fourth pattern every import
\* line of the relative path itself, and require('...<name>') every require
\* line of a module ending in the name
UsageIn(file, fileName, relativePath) ==
  LET imps == SourceImports(relative(file))
  IN  SumSeq([i \in 1..Len(imps) |->
        imps[i].times *
          IF imps[i].form = "import"
          THEN (IF endsWith(imps[i].module, fileName) THEN 1 ELSE 0)
             + (IF includes(imps[i].module, fileName) THEN 1 ELSE 0)
             + (IF endsWith(imps[i].module, relativePath) THEN 1 ELSE 0)
          ELSE (IF endsWith(imps[i].module, fileName) THEN 1 ELSE 0)])

countFileUsage(filePath, allFiles) ==
  LET fileName     == basenameExt(filePath, extname(filePath))
      relativePath == relative(filePath)
  IN  SumSeq([i \in 1..Len(allFiles) |-> UsageIn(allFiles[i], fileName, relativePath)])

\* documentedFiles: every member of value.files of every entry
documentedFilesOf(cp) ==
  LET es == ObjectEntries(cp)
  IN  UNION {Range(es[i].files) : i \in {j \in 1..Len(es) : es[j].hasFiles}}

isDocumentedExact(filePath, documentedFiles) ==
  \/ relative(filePath) \in documentedFiles
  \/ filePath \in documentedFiles

isDocumented(filePath, documentedFiles) ==
  \/ relative(filePath) \in documentedFiles
  \/ filePath \in documentedFiles
  \/ \E d \in documentedFiles : includes(d, basename(filePath))

priorityOf(usageCount) ==
  IF usageCount > 10 THEN "high" ELSE IF usageCount > 5 THEN "medium" ELSE "low"

priorityOrder(p) == CASE p = "high" -> 0 [] p = "medium" -> 1 [] OTHER -> 2

UndocBeforePriorityOnly(a, b) ==
  priorityOrder(a.priority) - priorityOrder(b.priority) < 0

\* the comparator of coverage.undocumented.sort: a before b
UndocBefore(a, b) ==
  LET priorityDiff == priorityOrder(a.priority) - priorityOrder(b.priority)
  IN  IF priorityDiff # 0 THEN priorityDiff < 0 ELSE b.usage_count - a.usage_count < 0

RECURSIVE InsertSorted(_, _)
InsertSorted(x, s) ==
  IF s = <<>> THEN <<x>>
  ELSE IF ~UndocBefore(Head(s), x) THEN <<x>> \o s
  ELSE <<Head(s)>> \o InsertSorted(x, Tail(s))

RECURSIVE SortUndocumented(_)
\* coverage.undocumented.sort(...): Array.prototype.sort is stable, so equal
\* items keep their order
SortUndocumented(s) ==
  IF s = <<>> THEN <<>>
  ELSE InsertSorted(Head(s), SortUndocumented(Tail(s)))

\* Math.round(documented / total * 100) / 100, in hundredths
coveragePercentageSwapped(documented, total) ==
  IF total > 0 THEN (200 * (total - documented) + total) \div (2 * total) ELSE 0

coveragePercentage(documented, total) ==
  IF total > 0 THEN (200 * documented + total) \div (2 * total) ELSE 0

\* a loop that lists as documented only the files named by their path
CoverageOfNamed(cp, allCodeFiles) ==
  LET documentedFiles == documentedFilesOf(cp)
      doc   == SelectSeq(allCodeFiles, LAMBDA f : isDocumentedExact(f, documentedFiles))
      undoc == SelectSeq(allCodeFiles, LAMBDA f : ~isDocumented(f, documentedFiles))
      items == [i \in 1..Len(undoc) |->
                  LET usageCount == countFileUsage(undoc[i], allCodeFiles)
                  IN  [file |-> relative(undoc[i]), usage_count |-> usageCount,
                       priority |-> priorityOf(usageCount)]]
  IN  [present |-> TRUE,
       total_files |-> Len(allCodeFiles),
       documented_files |-> Len(doc),
       undocumented_files |-> Len(undoc),
       coverage_percentage |-> coveragePercentage(Len(doc), Len(allCodeFiles)),
       documented |-> [i \in 1..Len(doc) |-> relative(doc[i])],
       undocumented |-> SortUndocumented(items)]

CoverageOf(cp, allCodeFiles) ==
  LET documentedFiles == documentedFilesOf(cp)
      doc   == SelectSeq(allCodeFiles, LAMBDA f : isDocumented(f, documentedFiles))
      undoc == SelectSeq(allCodeFiles, LAMBDA f : ~isDocumented(f, documentedFiles))
      items == [i \in 1..Len(undoc) |->
                  LET usageCount == countFileUsage(undoc[i], allCodeFiles)
                  IN  [file |-> relative(undoc[i]), usage_count |-> usageCount,
                       priority |-> priorityOf(usageCount)]]
  IN  [present |-> TRUE,
       total_files |-> Len(allCodeFiles),
       documented_files |-> Len(doc),
       undocumented_files |-> Len(undoc),
       coverage_percentage |-> coveragePercentage(Len(doc), Len(allCodeFiles)),
       documented |-> [i \in 1..Len(doc) |-> relative(doc[i])],
       undocumented |-> SortUndocumented(items)]

NoCoverage == [present |-> FALSE, total_files |-> 0, documented_files |-> 0,
               undocumented_files |-> 0, coverage_percentage |-> 0,
               documented |-> <<>>, undocumented |-> <<>>]

\* the report is computed and written; writeFileSync throws when the
\* documentation directory is missing, and the catch exits with 1
analyzeCoverage ==
  /\ IF ~docsRoot
     THEN exitStatus' = 1 /\ UNCHANGED coverage
     ELSE /\ coverage' = CoverageOf(codePointers, getAllCodeFiles)
          /\ exitStatus' = 0
  /\ lastOp' = "analyzeCoverage"
  /\ UNCHANGED <<inputs, codePointers, docState, validation, changeReport, resolved, aux, run, sync>>

----------------------------------------------------------------------------
(* validate-accuracy.mjs (src/unnamed/part_001)                            *)

\* the extensions of the three path patterns of extractFilePaths
PathPatternExts == {ExtJs, ExtTs, ExtJsx, ExtTsx, ExtPy, ExtGo, ExtRs, ExtJava, ExtRb}

RECURSIVE Dedup(_, _)
\* [...new Set(paths)]: first occurrences, in order
Dedup(s, seen) ==
  IF s = <<>> THEN <<>>
  ELSE IF Head(s) \in seen THEN Dedup(Tail(s), seen)
  ELSE <<Head(s)>> \o Dedup(Tail(s), seen \cup {Head(s)})

\* the paths the patterns find: `path.ext` in an inline-code span, then
\* 'path.ext' between quotes (the module of an import line)
extractFilePaths(content) ==
  LET HasExt(l) == \E ext \in PathPatternExts : endsWith(l.v, ext)
      spans  == SelectSeq(content, LAMBDA l : l.t = "inline" /\ HasExt(l))
      quoted == SelectSeq(content, LAMBDA l : l.t = "import" /\ HasExt(l))
  IN  Dedup([i \in 1..Len(spans) |-> spans[i].v]
            \o [i \in 1..Len(quoted) |-> quoted[i].v], {})

\* key.split('#')[1]: the text after the first '#' up to the next one,
\* undefined when the key has no '#'
splitHash1(key) ==
  LET i == indexOf(key, "#")
  IN  IF i = 0 THEN <<"undefined">>
      ELSE splitHash0(SubSeq(key, i + 1, Len(key)))

\* a finding: the document, the type, the severity, the file its message
\* names, and the section where the finding carries one
Finding(docFile, type, severity, codeFile, review) ==
  [docFile |-> docFile, type |-> type, severity |-> severity,
   codeFile |-> codeFile, section |-> <<"undefined">>,
   autoFixable |-> FALSE, requiresAIReview |-> review]

validateFilePaths(docFile, content) ==
  LET missing == SelectSeq(extractFilePaths(content), LAMBDA f : ~existsSync(f))
  IN  [i \in 1..Len(missing) |->
         Finding(docFile, "broken_reference", "error", missing[i], FALSE)]

InfoJavascript == <<"j", "a", "v", "a", "s", "c", "r", "i", "p", "t">>
InfoTypescript == <<"t", "y", "p", "e", "s", "c", "r", "i", "p", "t">>

RECURSIVE CodeExamples(_, _)
\* the matches of /```(\w+)?\n([\s\S]*?)```/g: the language and the lines
CodeExamples(content, i) ==
  LET open == NextLine(WordFences(content), i)
  IN  IF open = 0 THEN <<>>
      ELSE LET close == NextLine(Fences(content), open + 1)
           IN  IF close = 0 THEN <<>>
               ELSE <<[language |-> content[open].v,
                       code |-> SubSeq(content, open + 1, close - 1)]>>
                    \o CodeExamples(content, close + 1)

\* the warnings of one example: unmatched braces (a class or function line
\* opens one, a close line closes one), then a call of app.start(
ExampleWarnings(docFile, ex) ==
  IF ex.language \in {InfoJavascript, InfoTypescript}
  THEN (IF CountLines(ex.code, "class") + CountLines(ex.code, "func")
           # CountLines(ex.code, "close")
        THEN <<Finding(docFile, "code_example_error", "warning", <<>>, FALSE)>>
        ELSE <<>>)
       \o
       (IF CountLines(ex.code, "appstart") > 0
        THEN <<Finding(docFile, "deprecated_api", "warning", <<>>, FALSE)>>
        ELSE <<>>)
  ELSE <<>>

validateCodeExamples(docFile, content) ==
  LET exs == CodeExamples(content, 1)
  IN  Flatten([i \in 1..Len(exs) |-> ExampleWarnings(docFile, exs[i])])

\* the findings for one file of one entry
PointerFindingsNoAge(e, codeFile) ==
  IF ~existsSync(codeFile)
  THEN <<Finding(splitHash0(e.key), "broken_code_link", "error", codeFile, FALSE)>>
  ELSE IF e.lastValidated # Null /\ srcMtime[codeFile] - e.lastValidated > 0
  THEN <<[Finding(splitHash0(e.key), "stale_documentation", "warning", codeFile, TRUE)
            EXCEPT !.section = splitHash1(e.key)]>>
  ELSE <<>>

PointerFindings(e, codeFile) ==
  IF ~existsSync(codeFile)
  THEN <<Finding(splitHash0(e.key), "broken_code_link", "error", codeFile, FALSE)>>
  ELSE IF e.lastValidated # Null
  THEN LET daysSinceValidation == srcMtime[codeFile] - e.lastValidated   \* in hours
       IN  IF daysSinceValidation > 0
           THEN <<[Finding(splitHash0(e.key), "stale_documentation",
                           IF daysSinceValidation > 7 * Day THEN "error" ELSE "warning",
                           codeFile, TRUE)
                     EXCEPT !.section = splitHash1(e.key)]>>
           ELSE <<>>
  ELSE <<>>

validateViaCodePointers(cp) ==
  LET es == SelectSeq(ObjectEntries(cp), LAMBDA e : e.hasFiles)
  IN  Flatten([i \in 1..Len(es) |->
        Flatten([j \in 1..Len(es[i].files) |-> PointerFindings(es[i], es[i].files[j])])])

WithSeverity(findings, sev) == SelectSeq(findings, LAMBDA x : x.severity = sev)

\* context_for_llms/<doc>, the path of a document relative to the root
DocPath(d) == <<"c", "/">> \o d

\* accuracy_score: 1.0, replaced by passed / total_checks when there is a
\* check; kept as the fraction num / den
accuracyScore(passed, total_checks) ==
  IF total_checks > 0 THEN [num |-> passed, den |-> total_checks]
  ELSE [num |-> 1, den |-> 1]

ValidationOf(cp) ==
  LET codePointerErrors == validateViaCodePointers(cp)
      perDoc(sev) ==
        Flatten([i \in 1..Len(DocOrder) |->
          WithSeverity(validateFilePaths(DocPath(DocOrder[i]), docs[DocOrder[i]].content)
                       \o validateCodeExamples(DocPath(DocOrder[i]),
                                               docs[DocOrder[i]].content), sev)])
      errors   == WithSeverity(codePointerErrors, "error") \o perDoc("error")
      warnings == WithSeverity(codePointerErrors, "warning") \o perDoc("warning")
      total    == Len(DocOrder)
  IN  [present |-> TRUE, total_checks |-> total,
       passed |-> total - Len(errors), failed |-> Len(errors),
       nwarnings |-> Len(warnings),
       accuracy_score |-> accuracyScore(total - Len(errors), total),
       errors |-> errors, warnings |-> warnings]

NoValidation == [present |-> FALSE, total_checks |-> 0, passed |-> 0, failed |-> 0,
                 nwarnings |-> 0, accuracy_score |-> [num |-> 1, den |-> 1],
                 errors |-> <<>>, warnings |-> <<>>]

\* process.exit(1) when the documentation directory is missing; the report
\* otherwise
validateAccuracy ==
  /\ IF ~docsRoot
     THEN exitStatus' = 1 /\ UNCHANGED validation
     ELSE /\ validation' = ValidationOf(codePointers)
          /\ exitStatus' = 0
  /\ lastOp' = "validateAccuracy"
  /\ UNCHANGED <<inputs, codePointers, docState, coverage, changeReport, resolved, aux, run, sync>>

----------------------------------------------------------------------------
(* track-code-changes.mjs                                                  *)
(*                                                                         *)
(* gitLog is what git log --since --name-only prints: the commits, newest  *)
(* first, each with the files it touches.  For each file the commit        *)
(* carries the lines it adds and removes and whether its diff text matches *)
(* the breaking-change pattern.                                            *)

Commit(hash, timestamp, files) == [hash |-> hash, timestamp |-> timestamp, files |-> files]

Touch(path, added, removed, sig) ==
  [path |-> path, added |-> added, removed |-> removed, sig |-> sig]

TouchedPaths(c) == {c.files[i].path : i \in 1..Len(c.files)}

\* getFileChanges: the keys of the Map, in order of first appearance
ChangedFiles(log) ==
  Dedup(Flatten([i \in 1..Len(log) |->
                   [j \in 1..Len(log[i].files) |-> log[i].files[j].path]]), {})

\* getFileChanges: changes.get(file)
CommitsOf(log, file) == SelectSeq(log, LAMBDA c : file \in TouchedPaths(c))

\* git diff <lastCommit> <firstCommit> -- file: what the commits after the
\* oldest one of the list, up to the newest, did to the file
DiffOf(filePath, commits) ==
  LET later == SubSeq(commits, 1, Len(commits) - 1)
      T(c)  == CHOOSE t \in Range(c.files) : t.path = filePath
  IN  [linesAdded   |-> SumSeq([i \in 1..Len(later) |-> T(later[i]).added]),
       linesRemoved |-> SumSeq([i \in 1..Len(later) |-> T(later[i]).removed]),
       matches      |-> \E i \in 1..Len(later) : T(later[i]).sig]

impactOfNoBreaking(totalLines, hasBreakingChange) ==
  IF totalLines > 100 THEN "high"
  ELSE IF totalLines > 20 THEN "medium" ELSE "low"

\* the impact tier of a diff
impactOf(totalLines, hasBreakingChange) ==
  IF hasBreakingChange THEN "high"
  ELSE IF totalLines > 100 THEN "high"
  ELSE IF totalLines > 20 THEN "medium" ELSE "low"

analyzeChangeImpact(filePath, commits) ==
  IF gitDiffOk
  THEN LET diff == DiffOf(filePath, commits)
           totalLines == diff.linesAdded + diff.linesRemoved
       IN  [changeType |-> IF diff.linesAdded > 0 /\ diff.linesRemoved = 0 THEN "added"
                           ELSE IF diff.linesRemoved > 0 /\ diff.linesAdded = 0
                           THEN "deleted" ELSE "modified",
            linesAdded |-> diff.linesAdded, linesRemoved |-> diff.linesRemoved,
            totalLines |-> totalLines,
            impact |-> impactOf(totalLines, diff.matches),
            hasBreakingChange |-> diff.matches, diffed |-> TRUE]
  ELSE [changeType |-> "modified", linesAdded |-> 0, linesRemoved |-> 0,
        totalLines |-> 0, impact |-> "unknown", hasBreakingChange |-> FALSE,
        diffed |-> FALSE]

\* the documents whose entries list the file, in order of first entry
affectedDocsOf(filePath, cp) ==
  LET es == SelectSeq(ObjectEntries(cp),
                      LAMBDA e : e.hasFiles /\ filePath \in Range(e.files))
  IN  Dedup([i \in 1..Len(es) |-> splitHash0(es[i].key)], {})

MarkStale(entry, lastCodeChange) ==
  [entry EXCEPT !.validationNeeded = TRUE, !.lastCodeChange = lastCodeChange,
                !.status = "stale"]

RECURSIVE MarkDocs(_, _, _)
\* the loop over affectedDocs that flags the entries DOC_STATE.json has
MarkDocs(files, docFiles, lastCodeChange) ==
  IF docFiles = <<>> THEN files
  ELSE MarkDocs(IF Head(docFiles) \in DOMAIN files
                THEN [files EXCEPT ![Head(docFiles)] = MarkStale(@, lastCodeChange)]
                ELSE files,
                Tail(docFiles), lastCodeChange)

RECURSIVE TrackChanges(_, _, _, _)
\* the loop over the changed files: the report items and the flagged entries
TrackChanges(changed, log, cp, acc) ==
  IF changed = <<>> THEN acc
  ELSE LET filePath == Head(changed)
           commits  == CommitsOf(log, filePath)
           affected == affectedDocsOf(filePath, cp)
           analysis == analyzeChangeImpact(filePath, commits)
       IN  TrackChanges(Tail(changed), log, cp,
             IF Len(affected) > 0
             THEN [items |-> Append(acc.items,
                      [code_file |-> filePath, change_type |-> analysis.changeType,
                       lines_changed |-> analysis.totalLines,
                       affected_documentation |-> affected,
                       impact |-> analysis.impact,
                       breaking_change |-> analysis.hasBreakingChange,
                       diffed |-> analysis.diffed,
                       commits |-> Len(commits),
                       most_recent_commit |-> commits[1].hash]),
                   files |-> MarkDocs(acc.files, affected, commits[1].timestamp)]
             ELSE acc)

impactOrder(i) ==
  CASE i = "high" -> 0 [] i = "medium" -> 1 [] i = "low" -> 2 [] OTHER -> 3

RECURSIVE InsertByImpact(_, _)
InsertByImpact(x, s) ==
  IF s = <<>> THEN <<x>>
  ELSE IF impactOrder(x.impact) <= impactOrder(Head(s).impact) THEN <<x>> \o s
  ELSE <<Head(s)>> \o InsertByImpact(x, Tail(s))

RECURSIVE SortByImpact(_)
\* report.affected_docs.sort(...), stable
SortByImpact(s) ==
  IF s = <<>> THEN <<>> ELSE InsertByImpact(Head(s), SortByImpact(Tail(s)))

NoChangeReport == [present |-> FALSE, total_code_changes |-> 0, affected_docs |-> <<>>]

RECURSIVE TrackTimesNotStrict(_, _)
TrackTimesNotStrict(pairs, acc) ==
  IF pairs = <<>> THEN acc
  ELSE LET docFile  == Head(pairs).docFile
           codeFile == Head(pairs).codeFile
       IN  TrackTimesNotStrict(Tail(pairs),
             IF /\ existsSync(codeFile)
                /\ docsRoot /\ docFile \in DocNames
                /\ srcMtime[codeFile] >= docs[docFile].mtime
                /\ docFile \in DOMAIN acc.files
             THEN [files |-> [acc.files EXCEPT
                                ![docFile] = MarkStale(@, srcMtime[codeFile])],
                   changesFound |-> acc.changesFound + 1]
             ELSE acc)

RECURSIVE TrackTimes(_, _)
\* the loops of trackViaFileTimes over the entries and their files
TrackTimes(pairs, acc) ==
  IF pairs = <<>> THEN acc
  ELSE LET docFile  == Head(pairs).docFile
           codeFile == Head(pairs).codeFile
       IN  TrackTimes(Tail(pairs),
             IF /\ existsSync(codeFile)
                /\ docsRoot /\ docFile \in DocNames
                /\ srcMtime[codeFile] > docs[docFile].mtime
                /\ docFile \in DOMAIN acc.files
             THEN [files |-> [acc.files EXCEPT
                                ![docFile] = MarkStale(@, srcMtime[codeFile])],
                   changesFound |-> acc.changesFound + 1]
             ELSE acc)

trackViaFileTimes ==
  LET es    == SelectSeq(ObjectEntries(codePointers), LAMBDA e : e.hasFiles)
      pairs == Flatten([i \in 1..Len(es) |->
                 [j \in 1..Len(es[i].files) |->
                    [docFile |-> splitHash0(es[i].key), codeFile |-> es[i].files[j]]]])
      out   == TrackTimes(pairs, [files |-> docState.files, changesFound |-> 0])
  IN  /\ docState' = IF out.changesFound > 0
                     THEN [docState EXCEPT !.files = out.files] ELSE docState
      /\ UNCHANGED changeReport
      /\ exitStatus' = 0

trackViaGit ==
  LET changed == ChangedFiles(gitLog)
      out     == TrackChanges(changed, gitLog, codePointers,
                              [items |-> <<>>, files |-> docState.files])
  IN  /\ docState' = IF DOMAIN docState.files # {} /\ docsRoot
                     THEN [docState EXCEPT !.files = out.files] ELSE docState
      \* writeFileSync of CODE_CHANGES.json throws when the documentation
      \* directory is missing, and the catch exits with 1
      /\ IF docsRoot
         THEN /\ changeReport' = [present |-> TRUE, total_code_changes |-> Len(changed),
                                  affected_docs |-> SortByImpact(out.items)]
              /\ exitStatus' = 0
         ELSE exitStatus' = 1 /\ UNCHANGED changeReport

trackCodeChanges ==
  /\ IF gitRepo THEN trackViaGit ELSE trackViaFileTimes
  /\ lastOp' = "trackCodeChanges"
  /\ UNCHANGED <<inputs, codePointers, coverage, validation, resolved, aux, run, sync>>

----------------------------------------------------------------------------
(* The environment: files are edited and deleted between two stages        *)

\* the files the stages write, and the result of the last resolver call
outputs == <<codePointers, docState, coverage, validation, changeReport, resolved, aux>>

\* the number of edits the environment makes in one behaviour
MaxEdits == 1

TouchSource ==
  \E f \in srcExists :
    /\ edits < MaxEdits
    /\ srcMtime[f] # now
    /\ srcMtime' = [srcMtime EXCEPT ![f] = now]
    /\ edits' = edits + 1
    /\ lastOp' = "TouchSource"
    /\ UNCHANGED <<now, srcExists, docs, gitRepo, gitDiffOk, gitLog, docsRoot, outputs,
                 exitStatus, run, sync>>

DeleteSource ==
  \E f \in srcExists :
    /\ edits < MaxEdits
    /\ srcExists' = srcExists \ {f}
    /\ edits' = edits + 1
    /\ lastOp' = "DeleteSource"
    /\ UNCHANGED <<now, srcMtime, docs, gitRepo, gitDiffOk, gitLog, docsRoot, outputs,
                 exitStatus, run, sync>>

EditDoc ==
  \E d \in DocNames :
    /\ edits < MaxEdits
    /\ docs[d].mtime # now
    /\ docs' = [docs EXCEPT ![d].mtime = now]
    /\ edits' = edits + 1
    /\ lastOp' = "EditDoc"
    /\ UNCHANGED <<now, srcExists, srcMtime, gitRepo, gitDiffOk, gitLog, docsRoot, outputs,
                 exitStatus, run, sync>>

----------------------------------------------------------------------------
(* Document texts                                                          *)

InfoNone == <<>>
InfoJs   == <<"j", "s">>
InfoCpp  == <<"c", "+", "+">>

\* a heading and prose
TextPlain ==
  <<Line("heading", <<>>, 2), Line("prose", <<>>, 120)>>

\* a fenced example that imports src/utils.js by its path
TextImportPath ==
  <<Line("heading", <<>>, 2), Line("prose", <<>>, 250),
    Line("fence", InfoJs, 1), Line("import", SrcUtilsJs, 4), Line("fence", InfoNone, 1)>>

\* prose that names src/foo.ts in an inline-code span
TextInlinePath ==
  <<Line("heading", <<>>, 2), Line("inline", SrcFooTs, 6)>>

\* a fenced example that imports './u' and defines class Foo
TextImportStem ==
  <<Line("fence", InfoJavascript, 1), Line("import", ModU, 4),
    Line("class", NameFoo, 3), Line("close", <<>>, 1), Line("fence", InfoNone, 1),
    Line("prose", <<>>, 600)>>

\* a block opened with ```c++ that imports src/foo.ts, then a block opened
\* with ```js that imports src/utils.js
TextCppFence ==
  <<Line("fence", InfoCpp, 1), Line("import", SrcFooTs, 4), Line("fence", InfoNone, 1),
    Line("fence", InfoJs, 1), Line("import", SrcUtilsJs, 4), Line("fence", InfoNone, 1)>>

\* headings, more than 500 words and a fenced example
TextComplete ==
  <<Line("heading", <<>>, 2), Line("prose", <<>>, 600),
    Line("fence", InfoJs, 1), Line("func", NameFoo, 3), Line("close", <<>>, 1),
    Line("fence", InfoNone, 1)>>

\* a few words of prose
TextBare == <<Line("prose", <<>>, 50)>>

\* none of AUTOFIX_REPORT.json, SECTIONS.json, RELATIONSHIPS.json, llms.txt
\* and INDEX.md written yet
NoAux == [autofixReport |-> FALSE, sections |-> Null, relationships |-> FALSE,
          llmsTxt |-> FALSE, indexMd |-> FALSE]

\* the orchestrator not started: no stage started, no exit status seen
NoRun == [pc |-> "idle", started |-> <<>>, exits |-> <<>>, summary |-> FALSE,
          exit |-> Null, after |-> <<>>]

\* the documentation directory is removed, and with it the documents and
\* every report the stages keep in it
RemoveDocsRoot ==
  /\ docsRoot
  /\ docsRoot' = FALSE
  /\ codePointers' = NoPointers
  /\ docState' = NoDocState
  /\ coverage' = NoCoverage
  /\ validation' = NoValidation
  /\ changeReport' = NoChangeReport
  /\ aux' = NoAux
  /\ lastOp' = "RemoveDocsRoot"
  /\ UNCHANGED <<now, srcExists, srcMtime, docs, gitRepo, gitDiffOk, gitLog, edits,
                 resolved, exitStatus, run, sync>>

\* sync-all-repos.sh not started, and no repository looked at
NoSync == [pc |-> "idle", i |-> 0, base |-> FALSE, repos |-> <<>>]

NoResolved == [called |-> FALSE, references |-> <<>>, sourceFiles |-> <<>>,
               pointers |-> <<>>]

\* the initial states: a tree, a history and a pointer map drawn from the
\* given sets, and no report written yet
InitWith(Trees, Mtimes, DocTexts, PointerMaps, Logs, Git) ==
  /\ now = Now0
  /\ srcExists \in Trees
  /\ srcMtime \in Mtimes
  /\ docs \in [DocNames -> [mtime : {T0}, content : DocTexts]]
  /\ codePointers \in PointerMaps
  /\ gitRepo \in Git
  /\ gitDiffOk \in Git
  /\ gitLog \in Logs
  /\ docState = NoDocState
  /\ coverage = NoCoverage
  /\ validation = NoValidation
  /\ changeReport = NoChangeReport
  /\ resolved = NoResolved
  /\ docsRoot = TRUE
  /\ aux = NoAux
  /\ exitStatus = 0
  /\ run = NoRun
  /\ sync = NoSync
  /\ edits = 0
  /\ lastOp = "init"

----------------------------------------------------------------------------
(* Staleness: analyzeDocState over pointer maps and modification times     *)

\* the largest number of entries of a pointer map, and of files of an entry
MaxEntries == 2
MaxFiles == 2

StalePaths == {SrcUtilsJs, SrcFooTs}

InitStale ==
  InitWith({StalePaths, {SrcUtilsJs}},
           {m \in [Paths -> {T0 + o : o \in Offsets}] :
              /\ \A f \in Paths \ StalePaths : m[f] = T0
              /\ m[SrcFooTs] \in {T0, T0 + 3 * Day + 1, T0 + 30 * Day + 1}},
           {TextPlain},
           EntryMaps({KeyAS, KeyBS}, SeqsUpTo(StalePaths, MaxFiles), {Null}, MaxEntries),
           {<<>>}, {TRUE})

NextStale == analyzeDocState \/ TouchSource \/ DeleteSource \/ EditDoc

SpecStale == InitStale /\ [][NextStale]_vars

\* the source files the pointer map links to document d that exist
LinkedExisting(d) ==
  {f \in srcExists :
     \E i \in 1..Len(codePointers.entries) :
        /\ splitHash0(codePointers.entries[i].key) = d
        /\ f \in Range(codePointers.entries[i].files)}

ChangedAfter(d) == {f \in LinkedExisting(d) : srcMtime[f] > docs[d].mtime}

\* C1: a document none of whose linked source files changed after the
\* document's last edit has staleness risk "none"
C1_NoLaterChangeIsNone ==
  lastOp = "analyzeDocState" =>
    \A d \in DocNames :
      ChangedAfter(d) = {} => docState.files[d].staleRisk = "none"

C1_Witness ==
  /\ lastOp = "analyzeDocState"
  /\ \E d \in DocNames :
       /\ LinkedExisting(d) # {}
       /\ ChangedAfter(d) = {}
       /\ docState.files[d].staleRisk = "none"

\* the hours from the document's last edit to the latest change of a linked file
Gap(d) ==
  (CHOOSE t \in {srcMtime[f] : f \in LinkedExisting(d)} :
     \A f \in LinkedExisting(d) : srcMtime[f] <= t) - docs[d].mtime

TierOfGap(g) ==
  IF g > 30 * Day THEN "critical"
  ELSE IF g > 7 * Day THEN "high"
  ELSE IF g > 3 * Day THEN "medium"
  ELSE "low"

\* C2: when a linked file changed after the document's last edit, the risk
\* is critical for a gap of more than 30 days, high for more than 7, medium
\* for more than 3, and low otherwise
C2_TierByGap ==
  lastOp = "analyzeDocState" =>
    \A d \in DocNames :
      ChangedAfter(d) # {} => docState.files[d].staleRisk = TierOfGap(Gap(d))

C2_Witness ==
  /\ lastOp = "analyzeDocState"
  /\ \E d \in DocNames :
       /\ ChangedAfter(d) # {}
       /\ Gap(d) = 7 * Day + 1
       /\ docState.files[d].staleRisk = "high"

----------------------------------------------------------------------------
(* Coverage: analyzeCoverage over trees and pointer maps                   *)

CoveragePaths == {SrcUtilsJs, SrcMyUtilsJs, LibUtilsJs, SrcFooTs}

\* the paths an entry of the pointer map may list: relative ones and an
\* absolute one
CoveragePointerFiles == {SrcUtilsJs, SrcMyUtilsJs, Cwd \o SrcUtilsJs}

CoveragePointerMaps ==
  EntryMaps({KeyAS, KeyBS}, SeqsUpTo(CoveragePointerFiles, MaxFiles), {Null}, MaxEntries)

InitCoverage ==
  InitWith(SUBSET CoveragePaths \ {{}}, {[f \in Paths |-> T0]}, {TextPlain},
           CoveragePointerMaps, {<<>>}, {TRUE})

NextCoverage == analyzeCoverage \/ DeleteSource

SpecCoverage == InitCoverage /\ [][NextCoverage]_vars

\* the files of the tree with an allow-listed extension, by relative path
CodeFiles == {f \in srcExists : extname(f) \in CODE_EXTENSIONS}

\* the paths the pointer map lists
PointerFiles == documentedFilesOf(codePointers)

\* the pointer map references files of the tree by exact path, and no others
ExactPathsOnly == PointerFiles \subseteq CodeFiles

\* h is x = 100 * d / n rounded to the nearest integer, halves up
IsRounded(h, d, n) == 200 * d - n < 2 * n * h /\ 2 * n * h <= 200 * d + n

\* C4 as stated: with k files referenced by exact path, documented = k,
\* undocumented = n - k and the percentage is k / n rounded to two places
C4_CountsEqualReferenced ==
  (lastOp = "analyzeCoverage" /\ CodeFiles # {} /\ ExactPathsOnly) =>
    LET n == Cardinality(CodeFiles)
        k == Cardinality(PointerFiles)
    IN  /\ coverage.documented_files = k
        /\ coverage.undocumented_files = n - k
        /\ IsRounded(coverage.coverage_percentage, k, n)

\* the files of the tree whose basename occurs in a path the map lists
NameOccurs == {f \in CodeFiles : \E p \in PointerFiles : includes(p, basename(f))}

\* C4, amended: the documented count is the number of files whose basename
\* occurs in a listed path; it is at least k, and k when no unreferenced
\* file's basename occurs in a listed path; undocumented is the rest and the
\* percentage is documented / n rounded to two places
C4_CountsByNameOccurrence ==
  (lastOp = "analyzeCoverage" /\ CodeFiles # {} /\ ExactPathsOnly) =>
    LET n == Cardinality(CodeFiles)
        k == Cardinality(PointerFiles)
        d == Cardinality(NameOccurs)
    IN  /\ coverage.documented_files = d
        /\ coverage.undocumented_files = n - d
        /\ IsRounded(coverage.coverage_percentage, d, n)
        /\ d >= k
        /\ (NameOccurs \subseteq PointerFiles => d = k)

C4_Witness ==
  /\ lastOp = "analyzeCoverage"
  /\ ExactPathsOnly
  /\ Cardinality(CodeFiles) = 3
  /\ Cardinality(PointerFiles) = 2
  /\ coverage.documented_files = 2
  /\ coverage.undocumented_files = 1
  /\ coverage.coverage_percentage = 67

\* C5: a file is documented exactly when a listed path equals its relative
\* or absolute path or has its basename; a basename that only occurs inside
\* another listed basename does not count
C5_DocumentedIffPathOrBasename ==
  lastOp = "analyzeCoverage" =>
    \A f \in CodeFiles :
      (f \in Range(coverage.documented)) <=>
        \E p \in PointerFiles :
          p = f \/ p = Cwd \o f \/ basename(p) = basename(f)

\* the pointers of a map, as (key, file) pairs
PointerPairs(cp) ==
  UNION {{<<cp.entries[i].key, f>> : f \in Range(cp.entries[i].files)}
           : i \in 1..Len(cp.entries)}

\* the members of s at the indices in keep, in order
Pick(s, keep) == SelectSeq([i \in 1..Len(s) |-> [at |-> i, x |-> s[i]]],
                           LAMBDA e : e.at \in keep)

\* the pointer maps that hold a subset of the pointers of cp
SubMaps(cp) ==
  {EntriesFile([i \in 1..Len(cp.entries) |->
       [cp.entries[i] EXCEPT
          !.files = [j \in 1..Len(Pick(@, keep[i])) |-> Pick(@, keep[i])[j].x]]])
     : keep \in [1..Len(cp.entries) -> SUBSET (1..MaxFiles)]}

\* C6: over a fixed tree, a pointer set contained in the analysed one never
\* yields a larger coverage percentage
C6_CoverageMonotone ==
  lastOp = "analyzeCoverage" =>
    \A P \in SubMaps(codePointers) :
      CoverageOf(P, getAllCodeFiles).coverage_percentage
        <= coverage.coverage_percentage

C6_Witness ==
  /\ lastOp = "analyzeCoverage"
  /\ \E P \in SubMaps(codePointers) :
       /\ PointerPairs(P) \subseteq PointerPairs(codePointers)
       /\ PointerPairs(P) # PointerPairs(codePointers)
       /\ PointerPairs(P) # {}
       /\ CoverageOf(P, getAllCodeFiles).coverage_percentage
            < coverage.coverage_percentage

\* the priority the thresholds give a usage count
TierOfUsage(u) ==
  IF u > 10 THEN "high" ELSE IF u > 5 /\ u <= 10 THEN "medium" ELSE "low"

\* high ranks above medium, medium above low
RankOf(p) == CASE p = "high" -> 3 [] p = "medium" -> 2 [] p = "low" -> 1

\* C14: in the coverage report every undocumented file has the priority of
\* its usage count (high above 10, medium above 5 up to 10, low up to 5),
\* and of two consecutive entries the first ranks at least as high as the
\* second and, at equal priority, has at least its usage count
C14_PriorityAndOrder ==
  lastOp = "analyzeCoverage" /\ exitStatus = 0 =>
    LET u == coverage.undocumented
    IN  /\ \A i \in 1..Len(u) : u[i].priority = TierOfUsage(u[i].usage_count)
        /\ \A i \in 1..(Len(u) - 1) :
             /\ RankOf(u[i].priority) >= RankOf(u[i + 1].priority)
             /\ u[i].priority = u[i + 1].priority
                  => u[i].usage_count >= u[i + 1].usage_count

C14_Witness ==
  /\ lastOp = "analyzeCoverage"
  /\ exitStatus = 0
  /\ [i \in 1..Len(coverage.undocumented) |->
        <<coverage.undocumented[i].usage_count, coverage.undocumented[i].priority>>]
       = << <<11, "high">>, <<11, "high">>, <<10, "medium">>, <<0, "low">> >>

\* two low entries that the sort had to exchange
C14_WitnessSwap ==
  /\ lastOp = "analyzeCoverage"
  /\ [i \in 1..Len(coverage.undocumented) |-> coverage.undocumented[i].file]
       = <<SrcUtilsJs, SrcMyUtilsJs>>
  /\ coverage.undocumented[1].usage_count = 5
  /\ coverage.undocumented[2].usage_count = 0

----------------------------------------------------------------------------
(* Resolution: generateCodePointers over document texts and trees, and the *)
(* validator's reading of the map it writes                                *)

ResolvePaths == {SrcUtilsJs, SrcFooTs, LibUtilsJs}

ResolveTexts == {TextPlain, TextImportPath, TextInlinePath, TextImportStem, TextCppFence}

\* the references handed to matchReferencesToFiles: one or two of them
ModUJs == ModU \o ExtJs

ReferenceValues == {SrcUtilsJs, SrcFooTs, ModU, ModUJs, NameFoo}

ReferenceLists ==
  LET refs == [type : {"import", "class", "function"}, value : ReferenceValues]
  IN  {<<r>> : r \in refs}
        \cup {<<r, q>> : r \in {x \in refs : x.type = "import"}, q \in refs}

\* one call of matchReferencesToFiles on the enumerated source set
callMatchReferencesToFiles ==
  \E references \in ReferenceLists :
    /\ resolved' = [called |-> TRUE, references |-> references,
                    sourceFiles |-> findSourceFiles,
                    pointers |-> matchReferencesToFiles(references, findSourceFiles)]
    /\ lastOp' = "matchReferencesToFiles"
    /\ UNCHANGED <<inputs, codePointers, docState, coverage, validation, changeReport,
                   aux, exitStatus, run, sync>>

InitResolve ==
  InitWith(SUBSET ResolvePaths, {[f \in Paths |-> T0]}, ResolveTexts,
           {NoPointers}, {<<>>}, {TRUE})

NextResolve == generateCodePointers \/ validateAccuracy \/ DeleteSource

SpecResolve == InitResolve /\ [][NextResolve]_vars

\* matchReferencesToFiles alone, over reference lists and trees
InitMatch ==
  InitWith(SUBSET ResolvePaths, {[f \in Paths |-> T0]}, {TextPlain},
           {NoPointers}, {<<>>}, {TRUE})

NextMatch == callMatchReferencesToFiles \/ DeleteSource

SpecMatch == InitMatch /\ [][NextMatch]_vars

\* the files the written map points document d to
GeneratedTargets(cp, d) ==
  UNION {{cp.mappings[i].files[j].file : j \in 1..Len(cp.mappings[i].files)}
           : i \in {k \in 1..Len(cp.mappings) : cp.mappings[k].doc = d}}

\* the written map holds a pointer from document d to file f
HasPointer(cp, d, f) == cp.kind = "generated" /\ f \in GeneratedTargets(cp, d)

\* C3: when a file the written pointer map points to no longer exists at
\* the validator's run, the report holds an error-severity, non-auto-fixable
\* finding that names the file
C3_DeletedTargetIsError ==
  (lastOp = "validateAccuracy" /\ codePointers.kind = "generated") =>
    \A d \in DocNames :
      \A f \in GeneratedTargets(codePointers, d) :
        ~existsSync(f) =>
          \E i \in 1..Len(validation.errors) :
            /\ validation.errors[i].codeFile = f
            /\ validation.errors[i].severity = "error"
            /\ ~validation.errors[i].autoFixable

\* C7: an import reference whose value equals the path of a file of the
\* source set yields at least one pointer to that file
C7_ExactPathResolves ==
  resolved.called =>
    \A i \in 1..Len(resolved.references) :
      (/\ resolved.references[i].type = "import"
       /\ resolved.references[i].value \in Range(resolved.sourceFiles)) =>
        \E j \in 1..Len(resolved.pointers) :
          resolved.pointers[j].file = resolved.references[i].value

C7_Witness ==
  /\ resolved.called
  /\ \E i \in 1..Len(resolved.references) :
       /\ resolved.references[i] = [type |-> "import", value |-> SrcUtilsJs]
       /\ SrcUtilsJs \in Range(resolved.sourceFiles)
       /\ \E j \in 1..Len(resolved.pointers) :
            /\ resolved.pointers[j].file = SrcUtilsJs
            /\ resolved.pointers[j].reason.value = SrcUtilsJs

\* the file name with its extension stripped
Stem(p) == basenameExt(p, extname(p))

\* C22: an import reference yields a pointer to a source file exactly when
\* the file's path contains the reference's value, or the two file names
\* are equal once their extensions are stripped
C22_ImportMatchesPathOrStem ==
  resolved.called =>
    \A i \in 1..Len(resolved.references) :
      resolved.references[i].type = "import" =>
        \A f \in Range(resolved.sourceFiles) :
          (\E j \in 1..Len(resolved.pointers) :
              /\ resolved.pointers[j].file = f
              /\ resolved.pointers[j].reason.kind = "imports"
              /\ resolved.pointers[j].reason.value = resolved.references[i].value)
            <=> \/ includes(f, resolved.references[i].value)
                \/ Stem(f) = Stem(resolved.references[i].value)

InsideFencedBlock(content, i) ==
  /\ \A j \in 1..Len(content) : IsFence(content[j]) => IsWord(content[j].v)
  /\ Cardinality({j \in 1..(i - 1) : IsFence(content[j])}) % 2 = 1
  /\ \E j \in (i + 1)..Len(content) : IsFence(content[j])

\* the text has no import, class or function line
OnlyProseAndSpans(content) ==
  \A i \in 1..Len(content) : content[i].t \notin {"import", "class", "func"}

----------------------------------------------------------------------------
(* Impact: trackCodeChanges over git histories                             *)

\* what one commit does to src/utils.js: lines added and removed around the
\* two thresholds, with or without a match of the breaking-change pattern
TouchOptions ==
  {Touch(SrcUtilsJs, a, r, b) : a \in {0, 20, 21, 100, 101}, r \in {0, 1}, b \in BOOLEAN}

\* the commit that brings src/foo.ts in
TouchFoo == Touch(SrcFooTs, 30, 0, FALSE)

\* the histories: one to three commits on src/utils.js, newest first, the
\* oldest of which creates the file; the newest may touch src/foo.ts too
ImpactLogs ==
  LET first == Commit("c1", T0 + Day, <<Touch(SrcUtilsJs, 20, 0, FALSE)>>)
      one   == {<<first>>}
      two   == {<<Commit("c2", T0 + 2 * Day, <<t>>), first>> : t \in TouchOptions}
      three == {<<Commit("c3", T0 + 3 * Day, <<t>>), l[1], l[2]>> :
                  t \in {x \in TouchOptions : x.removed = 0}, l \in two}
      base  == one \cup two \cup three
  IN  base \cup {[l EXCEPT ![1].files = Append(@, TouchFoo)] : l \in one \cup two}

ImpactPointerMaps ==
  {EntriesFile(<<[key |-> KeyAS, files |-> <<SrcUtilsJs>>, lastValidated |-> Null]>>),
   EntriesFile(<<[key |-> KeyAS, files |-> <<SrcUtilsJs, SrcFooTs>>, lastValidated |-> Null],
                 [key |-> KeyBS, files |-> <<SrcFooTs>>, lastValidated |-> Null]>>),
   NoPointers}

InitImpact ==
  InitWith({{SrcUtilsJs, SrcFooTs}}, {[f \in Paths |-> T0 + 3 * Day]}, {TextPlain},
           ImpactPointerMaps, ImpactLogs, BOOLEAN)

NextImpact == trackCodeChanges \/ analyzeDocState

SpecImpact == InitImpact /\ [][NextImpact]_vars

\* the tier the claim gives t changed lines with breaking flag b
TierOfChange(t, b) ==
  IF t > 100 \/ b THEN "high"
  ELSE IF 20 < t /\ t <= 100 THEN "medium"
  ELSE "low"

\* C9: a changed file whose diff was obtained with t added-plus-removed
\* lines and breaking flag b is reported high if t > 100 or b, medium if
\* not b and 20 < t <= 100, and low otherwise
C9_ImpactTier ==
  (lastOp = "trackCodeChanges" /\ changeReport.present) =>
    \A i \in 1..Len(changeReport.affected_docs) :
      LET item == changeReport.affected_docs[i]
      IN  item.diffed =>
            item.impact = TierOfChange(item.lines_changed, item.breaking_change)

C9_Witness ==
  /\ lastOp = "trackCodeChanges"
  /\ changeReport.present
  /\ \E i, j \in 1..Len(changeReport.affected_docs) :
       /\ changeReport.affected_docs[i].diffed
       /\ changeReport.affected_docs[i].lines_changed = 100
       /\ ~changeReport.affected_docs[i].breaking_change
       /\ changeReport.affected_docs[i].impact = "medium"
       /\ changeReport.affected_docs[j].diffed
       /\ changeReport.affected_docs[j].lines_changed = 0
       /\ changeReport.affected_docs[j].impact = "low"

\* C12: in every version of DOC_STATE.json a document's status is stale
\* exactly when its staleRisk is medium, high or critical, and current when
\* it is none or low
C12_StatusMatchesRisk ==
  docState.present =>
    \A d \in DOMAIN docState.files :
      /\ docState.files[d].status = "stale"
           <=> docState.files[d].staleRisk \in {"medium", "high", "critical"}
      /\ docState.files[d].status = "current"
           <=> docState.files[d].staleRisk \in {"none", "low"}


\* outside a git repository: the trees, the modification times on both
\* sides of the documents' own, and the pointer maps the fallback reads
InitFallback ==
  InitWith({{SrcUtilsJs, SrcFooTs}, {SrcUtilsJs}},
           {m \in [Paths -> {T0 - 1, T0, T0 + 1}] :
              /\ \A f \in Paths \ {SrcUtilsJs, SrcFooTs} : m[f] = T0
              /\ m[SrcFooTs] \in {T0, T0 + 1}},
           {TextPlain}, ImpactPointerMaps, {<<>>}, {FALSE})

NextFallback ==
  trackCodeChanges \/ analyzeDocState \/ TouchSource \/ DeleteSource \/ EditDoc

SpecFallback == InitFallback /\ [][NextFallback]_vars

\* C17: without version control the tracker exits with status 0, flags
\* stale and validationNeeded every document-state entry whose document
\* has an existing linked source file modified strictly after the document,
\* and leaves every other entry as it was
C17_FallbackFlagsNewer ==
  [][ (lastOp' = "trackCodeChanges" /\ ~gitRepo) =>
        /\ exitStatus' = 0
        /\ DOMAIN docState'.files = DOMAIN docState.files
        /\ \A d \in DOMAIN docState.files :
             IF ChangedAfter(d) # {}
             THEN /\ docState'.files[d].status = "stale"
                  /\ docState'.files[d].validationNeeded
             ELSE docState'.files[d] = docState.files[d] ]_vars

C17_Witness ==
  /\ lastOp = "trackCodeChanges"
  /\ ~gitRepo
  /\ exitStatus = 0
  /\ \E d, e \in DOMAIN docState.files :
       /\ ChangedAfter(d) # {}
       /\ docState.files[d].staleRisk = "none"
       /\ docState.files[d].status = "stale"
       /\ docState.files[d].validationNeeded
       /\ LinkedExisting(e) # {}
       /\ ChangedAfter(e) = {}
       /\ docState.files[e].status = "current"

----------------------------------------------------------------------------
(* Validation: validateAccuracy over pointer maps that carry lastValidated *)

ValidatePaths == {SrcUtilsJs, SrcFooTs}

InitValidate ==
  InitWith({ValidatePaths, {SrcUtilsJs}},
           {m \in [Paths -> {T0 + o : o \in Offsets}] :
              /\ \A f \in Paths \ ValidatePaths : m[f] = T0
              /\ m[SrcFooTs] \in {T0 - 1, T0 + 7 * Day + 1}},
           {TextPlain},
           EntryMaps({KeyA, KeyAS}, SeqsUpTo(ValidatePaths, MaxFiles), {Null, T0},
                     MaxEntries),
           {<<>>}, {TRUE})

NextValidate == validateAccuracy \/ TouchSource \/ DeleteSource

SpecValidate == InitValidate /\ [][NextValidate]_vars

\* the stale_documentation findings of the report for entry e and file f
StaleFindings(e, f) ==
  LET all == validation.errors \o validation.warnings
  IN  {i \in 1..Len(all) :
         /\ all[i].type = "stale_documentation"
         /\ all[i].docFile = splitHash0(e.key)
         /\ all[i].section = splitHash1(e.key)
         /\ all[i].codeFile = f}

\* C10: for an entry that carries lastValidated and an existing file of the
\* entry, the report holds exactly one stale_documentation finding when the
\* file was modified after lastValidated, an error when the gap exceeds 7
\* days and a warning otherwise, with requiresAIReview set and autoFixable
\* not; it holds none when the file was not modified later
C10_StaleFindingPerEntryFile ==
  lastOp = "validateAccuracy" =>
    \A k \in 1..Len(codePointers.entries) :
      LET e == codePointers.entries[k]
          all == validation.errors \o validation.warnings
      IN  e.lastValidated # Null =>
            \A f \in Range(e.files) \cap srcExists :
              IF srcMtime[f] > e.lastValidated
              THEN /\ Cardinality(StaleFindings(e, f)) = 1
                   /\ \A i \in StaleFindings(e, f) :
                        /\ all[i].requiresAIReview
                        /\ ~all[i].autoFixable
                        /\ all[i].severity =
                             IF srcMtime[f] - e.lastValidated > 7 * Day
                             THEN "error" ELSE "warning"
              ELSE StaleFindings(e, f) = {}

\* the documents of the report without a finding counted as a failure
DocsWithoutError ==
  {d \in DocNames :
     \A i \in 1..Len(validation.errors) :
        validation.errors[i].docFile \notin {d, DocPath(d)}}

\* C11: the accuracy score is passed / total, with total the number of
\* documents checked and passed the number of them without a failure
C11_AccuracyIsPassedDocs ==
  lastOp = "validateAccuracy" /\ exitStatus = 0 =>
    /\ validation.total_checks = Cardinality(DocNames)
    /\ validation.accuracy_score.num * Cardinality(DocNames)
         = Cardinality(DocsWithoutError) * validation.accuracy_score.den

C10_Witness ==
  /\ lastOp = "validateAccuracy"
  /\ \E k \in 1..Len(codePointers.entries) :
       LET e == codePointers.entries[k]
       IN  /\ e.lastValidated = T0
           /\ e.files = <<SrcUtilsJs, SrcFooTs>>
           /\ ValidatePaths \subseteq srcExists
           /\ srcMtime[SrcUtilsJs] = T0 + 7 * Day
           /\ srcMtime[SrcFooTs] = T0 + 7 * Day + 1
           /\ Len(validation.warnings) >= 1
           /\ Len(validation.errors) >= 1
           /\ Cardinality(StaleFindings(e, SrcUtilsJs)) = 1
           /\ Cardinality(StaleFindings(e, SrcFooTs)) = 1

----------------------------------------------------------------------------
(* Completeness: analyzeDocState over documents of every score, while the  *)
(* tree, the modification times and the pointer map change                 *)

CompleteTexts == {TextBare, TextPlain, TextImportPath, TextImportStem, TextComplete}

InitComplete ==
  InitWith({{SrcUtilsJs, SrcFooTs}},
           {m \in [Paths -> {T0, T0 + 7 * Day + 1}] :
              \A f \in Paths \ {SrcUtilsJs} : m[f] = T0},
           CompleteTexts, ImpactPointerMaps, {<<>>}, {TRUE})

NextComplete ==
  analyzeDocState \/ generateCodePointers \/ TouchSource \/ DeleteSource \/ EditDoc

SpecComplete == InitComplete /\ [][NextComplete]_vars

\* C20: the completeness of a document lies between 0.0 and 1.0, two
\* documents with the same text have the same completeness whatever files
\* they point to and whenever they were modified, and a run of
\* analyzeDocState over an unchanged text gives the completeness the run
\* before it gave, whatever happened to the tree, the pointer map and the
\* modification times in between
C20_CompletenessOfTextOnly ==
  /\ [](docState.present =>
         \A d, e \in DocNames :
           /\ docState.files[d].completeness \in 0..10
           /\ docs[d].content = docs[e].content
                => docState.files[d].completeness = docState.files[e].completeness)
  /\ [][ (lastOp' = "analyzeDocState" /\ exitStatus' = 0 /\ docState.present) =>
          \A d \in DocNames :
            docs'[d].content = docs[d].content
              => docState'.files[d].completeness = docState.files[d].completeness ]_vars

C20_Witness ==
  /\ lastOp = "analyzeDocState"
  /\ edits > 0
  /\ codePointers.kind = "entries"
  /\ docs[DocA].content = docs[DocB].content
  /\ docs[DocA].mtime # docs[DocB].mtime
  /\ docState.files[DocA].linkedFiles # docState.files[DocB].linkedFiles
  /\ docState.files[DocA].staleRisk # docState.files[DocB].staleRisk
  /\ docState.files[DocA].completeness = 8
  /\ docState.files[DocB].completeness = 8

----------------------------------------------------------------------------
(* Re-resolution: generateCodePointers run again and again over documents  *)
(* and a tree that keep their contents, while other stages run and files   *)
(* are saved anew                                                          *)

InitRerun ==
  InitWith(SUBSET ResolvePaths, {[f \in Paths |-> T0]}, ResolveTexts,
           {NoPointers,
            EntriesFile(<<[key |-> KeyAS, files |-> <<SrcUtilsJs>>, lastValidated |-> Null]>>)},
           {<<>>}, {TRUE})

NextRerun ==
  generateCodePointers \/ validateAccuracy \/ analyzeCoverage \/ TouchSource \/ EditDoc

SpecRerun == InitRerun /\ [][NextRerun]_vars

\* C15: over the same documents and the same source set, a run of the
\* resolver writes the pointer map the run before it wrote: the same
\* documents, files and reasons in the same order
C15_RerunWritesSameMap ==
  [][ (lastOp' = "generateCodePointers" /\ exitStatus' = 0
         /\ codePointers.kind = "generated") =>
        /\ codePointers'.mappings = codePointers.mappings
        /\ codePointers'.total = codePointers.total ]_vars

C15_Witness ==
  /\ lastOp = "generateCodePointers"
  /\ exitStatus = 0
  /\ edits > 0
  /\ validation.present
  /\ coverage.present
  /\ Len(codePointers.mappings) = 2
  /\ \E i \in 1..2 : Len(codePointers.mappings[i].files) = 2

----------------------------------------------------------------------------
(* The analysis stages when the documentation directory is missing         *)

NextNoRoot ==
  \/ trackCodeChanges
  \/ analyzeDocState
  \/ analyzeCoverage
  \/ validateAccuracy
  \/ RemoveDocsRoot

SpecNoRoot == InitImpact /\ [][NextNoRoot]_vars

\* C16: with the documentation directory absent, each analysis stage (the
\* tracker in git and in fallback mode, analyzeDocState, analyzeCoverage,
\* validateAccuracy) ends with a non-zero exit status and writes no report
C16_NoRootFailsWithoutReport ==
  (~docsRoot /\ lastOp \in {"trackCodeChanges", "analyzeDocState", "analyzeCoverage",
                            "validateAccuracy"}) =>
    /\ exitStatus # 0
    /\ codePointers.kind = "absent"
    /\ ~docState.present
    /\ ~coverage.present
    /\ ~validation.present
    /\ ~changeReport.present

----------------------------------------------------------------------------
(* The pointer map the resolver writes, read by the coverage stage of the  *)
(* next run                                                                *)

NextCounted == generateCodePointers \/ analyzeCoverage \/ DeleteSource

SpecCounted == InitResolve /\ [][NextCounted]_vars

\* C13: every source file the pointer map written by generateCodePointers
\* points some document to, and that is still in the tree, is listed as
\* documented by the analyzeCoverage run that reads that map
C13_GeneratedTargetsAreDocumented ==
  (lastOp = "analyzeCoverage" /\ exitStatus = 0 /\ codePointers.kind = "generated") =>
    \A d \in DocNames :
      \A f \in GeneratedTargets(codePointers, d) \cap srcExists :
        f \in Range(coverage.documented)

----------------------------------------------------------------------------
(* autofix-linting.mjs (src/unnamed/part_002)                              *)

\* the number of "#" of a heading line: v holds the marks after the first
headingLevel(line) == Len(line.v) + 1

RECURSIVE FixHeadings(_, _)
\* the loop of fixHeadingStructure: a heading more than one level below the
\* last one gets an intermediate heading "<marks> <text> (Section)" before it
FixHeadings(lines, lastLevel) ==
  IF lines = <<>> THEN <<>>
  ELSE LET line == Head(lines)
       IN  IF line.t = "heading"
           THEN LET level == headingLevel(line)
                IN  (IF level > lastLevel + 1 /\ lastLevel > 0
                     THEN <<Line("heading", [i \in 1..lastLevel |-> "#"], line.w + 1)>>
                     ELSE <<>>)
                    \o <<line>> \o FixHeadings(Tail(lines), level)
           ELSE <<line>> \o FixHeadings(Tail(lines), lastLevel)

fixHeadingStructure(content) == FixHeadings(content, 0)

InfoPython == <<"p", "y", "t", "h", "o", "n">>

\* the language of a block: javascript for an import or function line,
\* python for a class line, none (the empty string) for the other lines
detectLanguage(code) ==
  IF \E i \in 1..Len(code) : code[i].t \in {"import", "func"} THEN InfoJavascript
  ELSE IF \E i \in 1..Len(code) : code[i].t = "class" THEN InfoPython
  ELSE <<>>

\* the fences that are a bare "```" and a newline
BareFences(content) == {j \in Fences(content) : content[j].v = InfoNone}

RECURSIVE UntaggedBlocks(_, _)
\* the successive matches of /```\n([\s\S]*?)```/g from line i on
UntaggedBlocks(content, i) ==
  LET open == NextLine(BareFences(content), i)
  IN  IF open = 0 THEN <<>>
      ELSE LET close == NextLine(Fences(content), open + 1)
           IN  IF close = 0 THEN <<>>
               ELSE <<[index |-> open, code |-> SubSeq(content, open + 1, close - 1)]>>
                    \o UntaggedBlocks(content, close + 1)

\* every matched "```" whose block has a detectable language gets it
addCodeBlockLanguages(content) ==
  LET matches == UntaggedBlocks(content, 1)
      At(j)   == {k \in 1..Len(matches) :
                    matches[k].index = j /\ detectLanguage(matches[k].code) # <<>>}
  IN  [j \in 1..Len(content) |->
         IF At(j) # {}
         THEN [content[j] EXCEPT !.v = detectLanguage(matches[CHOOSE k \in At(j) : TRUE].code)]
         ELSE content[j]]

\* the fixes of processFile in order; the lines of the model's documents
\* have no trailing blanks, one kind of list marker and a blank line before
\* each heading, so the last three fixes change no line
processFile(content) == addCodeBlockLanguages(fixHeadingStructure(content))

\* process.exit(1) when the documentation directory is missing; otherwise
\* every document a fix changes is written, and AUTOFIX_REPORT.json
autofixLinting ==
  /\ IF ~docsRoot
     THEN exitStatus' = 1 /\ UNCHANGED <<docs, aux>>
     ELSE /\ docs' = [d \in DocNames |->
                        IF processFile(docs[d].content) # docs[d].content
                        THEN [mtime |-> now, content |-> processFile(docs[d].content)]
                        ELSE docs[d]]
          /\ aux' = [aux EXCEPT !.autofixReport = TRUE]
          /\ exitStatus' = 0
  /\ lastOp' = "autofixLinting"
  /\ UNCHANGED <<now, srcExists, srcMtime, gitRepo, gitDiffOk, gitLog, docsRoot, edits,
                 codePointers, docState, coverage, validation, changeReport, resolved, run, sync>>

----------------------------------------------------------------------------
(* update-timestamps.mjs (src/unnamed/part_000)                            *)

\* the line "Last Updated: <date>", of three words
StampLine == Line("stamp", <<>>, 3)

\* TIMESTAMP_PATTERN.test(content)
hasTimestamp(content) == \E i \in 1..Len(content) : content[i].t = "stamp"

\* the line is replaced when there is one, and put on top with a blank line
\* after it when there is none (the documents have no frontmatter)
stamped(content) == IF hasTimestamp(content) THEN content ELSE <<StampLine>> \o content

\* a missing documentation directory is skipped with status 0; otherwise
\* every document is written anew
updateTimestamps ==
  /\ IF ~docsRoot
     THEN UNCHANGED docs
     ELSE docs' = [d \in DocNames |-> [mtime |-> now, content |-> stamped(docs[d].content)]]
  /\ exitStatus' = 0
  /\ lastOp' = "updateTimestamps"
  /\ UNCHANGED <<now, srcExists, srcMtime, gitRepo, gitDiffOk, gitLog, docsRoot, edits,
                 outputs, run, sync>>

----------------------------------------------------------------------------
(* generate-section-index.mjs, render-relationships.mjs and                *)
(* generate-llm-index.mjs                                                  *)

\* total_sections of SECTIONS.json: one section per heading line
totalSections == SumSeq([i \in 1..Len(DocOrder) |-> CountLines(docs[DocOrder[i]].content, "heading")])

generateSectionIndex ==
  /\ IF ~docsRoot
     THEN exitStatus' = 1 /\ UNCHANGED aux
     ELSE aux' = [aux EXCEPT !.sections = totalSections] /\ exitStatus' = 0
  /\ lastOp' = "generateSectionIndex"
  /\ UNCHANGED <<inputs, codePointers, docState, coverage, validation, changeReport,
                 resolved, run, sync>>

\* no test of the directory and no catch: the write of RELATIONSHIPS.json
\* throws when the directory is missing and node exits with 1
renderRelationships ==
  /\ IF ~docsRoot
     THEN exitStatus' = 1 /\ UNCHANGED aux
     ELSE aux' = [aux EXCEPT !.relationships = TRUE] /\ exitStatus' = 0
  /\ lastOp' = "renderRelationships"
  /\ UNCHANGED <<inputs, codePointers, docState, coverage, validation, changeReport,
                 resolved, run, sync>>

\* llms.txt and INDEX.md are written; INDEX.md is kept apart from the
\* documents a.md and b.md, and the entries later stages make for it are
\* not part of the reports of the model
generateLlmIndex ==
  /\ IF ~docsRoot
     THEN exitStatus' = 1 /\ UNCHANGED aux
     ELSE aux' = [aux EXCEPT !.llmsTxt = TRUE, !.indexMd = TRUE] /\ exitStatus' = 0
  /\ lastOp' = "generateLlmIndex"
  /\ UNCHANGED <<inputs, codePointers, docState, coverage, validation, changeReport,
                 resolved, run, sync>>

----------------------------------------------------------------------------
(* optimize-docs.sh: ten stages in sequence under set -e                   *)

\* the number of pipeline runs in one behaviour
MaxRuns == 2

LastStage == 10

\* the reports as they are when a run completes
Reports == [codePointers |-> codePointers, docState |-> docState,
            coverage |-> coverage, validation |-> validation]

\* the script is started: stage 1 is launched
StartPipeline ==
  /\ \/ run.pc = "idle"
     \/ run.pc = "done" /\ Len(run.after) < MaxRuns
  /\ run' = [run EXCEPT !.pc = "running", !.started = <<1>>, !.exits = <<>>,
                        !.summary = FALSE, !.exit = Null]
  /\ exitStatus' = Null
  /\ lastOp' = "StartPipeline"
  /\ UNCHANGED <<inputs, outputs, sync>>

\* stage k is the one running
AtStage(k) == run.pc = "running" /\ Len(run.started) = k /\ exitStatus = Null

Stage1  == AtStage(1)  /\ trackCodeChanges
Stage2  == AtStage(2)  /\ analyzeDocState
Stage3  == AtStage(3)  /\ analyzeCoverage
Stage4  == AtStage(4)  /\ validateAccuracy
Stage5  == AtStage(5)  /\ autofixLinting
Stage6  == AtStage(6)  /\ updateTimestamps
Stage7  == AtStage(7)  /\ generateSectionIndex
Stage8  == AtStage(8)  /\ generateCodePointers
Stage9  == AtStage(9)  /\ renderRelationships
Stage10 == AtStage(10) /\ generateLlmIndex

NextStageNoErrexit ==
  /\ run.pc = "running"
  /\ exitStatus # Null
  /\ Len(run.started) < LastStage
  /\ run' = [run EXCEPT !.started = Append(@, Len(@) + 1),
                        !.exits = Append(@, exitStatus)]
  /\ exitStatus' = Null
  /\ lastOp' = "NextStage"
  /\ UNCHANGED <<inputs, outputs, sync>>

\* a stage exited with 0: the next one is launched
NextStage ==
  /\ run.pc = "running"
  /\ exitStatus = 0
  /\ Len(run.started) < LastStage
  /\ run' = [run EXCEPT !.started = Append(@, Len(@) + 1),
                        !.exits = Append(@, exitStatus)]
  /\ exitStatus' = Null
  /\ lastOp' = "NextStage"
  /\ UNCHANGED <<inputs, outputs, sync>>

\* set -e: a stage exited with another status, and the script exits with it
AbortPipeline ==
  /\ run.pc = "running"
  /\ exitStatus \notin {0, Null}
  /\ run' = [run EXCEPT !.pc = "failed", !.exits = Append(@, exitStatus),
                        !.exit = exitStatus]
  /\ lastOp' = "AbortPipeline"
  /\ UNCHANGED <<inputs, outputs, exitStatus, sync>>

\* the last stage exited with 0: the summary is printed and the script
\* exits with 0
CompletePipeline ==
  /\ run.pc = "running"
  /\ exitStatus = 0
  /\ Len(run.started) = LastStage
  /\ run' = [run EXCEPT !.pc = "done", !.exits = Append(@, exitStatus),
                        !.summary = TRUE, !.exit = 0, !.after = Append(@, Reports)]
  /\ lastOp' = "CompletePipeline"
  /\ UNCHANGED <<inputs, outputs, exitStatus, sync>>

\* a fenced example opened with a bare ``` that imports src/utils.js
TextUnlabelled ==
  <<Line("heading", <<>>, 2), Line("prose", <<>>, 250),
    Line("fence", InfoNone, 1), Line("import", SrcUtilsJs, 4), Line("fence", InfoNone, 1)>>

PipelineTexts == {TextPlain, TextImportPath, TextUnlabelled}

PipelineLogs ==
  {<<>>, <<Commit("c1", T0 + Day, <<Touch(SrcUtilsJs, 20, 0, FALSE)>>)>>}

InitPipeline ==
  InitWith({{SrcUtilsJs, SrcFooTs}}, {[f \in Paths |-> T0 + 3 * Day + 1]}, PipelineTexts,
           {NoPointers, EntriesFile(<<[key |-> KeyAS, files |-> <<SrcUtilsJs>>,
                                       lastValidated |-> Null]>>)},
           PipelineLogs, BOOLEAN)

NextPipeline ==
  \/ StartPipeline
  \/ Stage1 \/ Stage2 \/ Stage3 \/ Stage4 \/ Stage5
  \/ Stage6 \/ Stage7 \/ Stage8 \/ Stage9 \/ Stage10
  \/ NextStage
  \/ AbortPipeline
  \/ CompletePipeline
  \/ RemoveDocsRoot

SpecPipeline == InitPipeline /\ [][NextPipeline]_vars

\* C18: the stages are started in the order 1 to 10, each only after every
\* stage before it exited with 0; once a stage exits non-zero no stage is
\* started after it, the orchestrator exits non-zero and prints no summary;
\* the summary is printed only after all ten stages exited with 0
C18_AllOrNothing ==
  /\ run.started = [i \in 1..Len(run.started) |-> i]
  /\ Len(run.started) <= LastStage
  /\ \A i \in 1..Len(run.exits) :
       run.exits[i] # 0 =>
         /\ i = Len(run.started)
         /\ run.pc = "failed"
         /\ run.exit # 0
         /\ run.exit # Null
         /\ ~run.summary
  /\ \A i \in 1..Len(run.started) : i < Len(run.started) => run.exits[i] = 0
  /\ run.summary =>
       /\ Len(run.started) = LastStage
       /\ run.exits = [i \in 1..LastStage |-> 0]
       /\ run.exit = 0

C18_Witness ==
  /\ run.pc = "failed"
  /\ ~docsRoot
  /\ Len(run.started) = 7
  /\ run.exits = <<0, 0, 0, 0, 0, 0, 1>>
  /\ run.exit = 1
  /\ ~run.summary

\* C19: after the second of two complete runs the pointer map, the
\* document-state report, the coverage report and the validation report
\* are as they were after the first
C19_SecondRunSameReports ==
  Len(run.after) >= 2 => run.after[2] = run.after[1]

----------------------------------------------------------------------------
(* sync-all-repos.sh.  A repository is                                     *)
(*   found, git   the directory exists, and holds a .git directory         *)
(*   dirty        git status --porcelain prints something                  *)
(*   upstream     @{u} resolves                                            *)
(*   ahead        commits of @ that @{u} lacks                             *)
(*   behind       commits of @{u} that @ lacks                             *)
(*   unfetched    commits of the remote that @{u} has not seen yet         *)
(*   pulls, pushes  the git pull and git push commands run in it           *)

\* two of the ten names of REPOS
REPOS == <<"Buckminster", "Memonic">>

\* git fetch --quiet
fetched(r) == [r EXCEPT !.behind = @ + r.unfetched, !.unfetched = 0]

\* LOCAL, REMOTE and BASE compared: equal heads, a local head that is the
\* merge base (pull), a remote head that is the merge base (push), diverged
synced(r) ==
  IF r.ahead = 0 /\ r.behind = 0 THEN r
  ELSE IF r.ahead = 0 THEN [r EXCEPT !.behind = 0, !.pulls = @ + 1]
  ELSE IF r.behind = 0 THEN [r EXCEPT !.ahead = 0, !.pushes = @ + 1]
  ELSE r

sync_repoNoStatus(repo) ==
  LET r == sync.repos[repo]
  IN  IF ~r.found THEN r
      ELSE IF ~r.git THEN r
      ELSE IF ~fetched(r).upstream THEN fetched(r)
      ELSE synced(fetched(r))

\* the repository after sync_repo: returns early when the directory is
\* missing, is no git repository, has uncommitted changes or no upstream
sync_repo(repo) ==
  LET r == sync.repos[repo]
  IN  IF ~r.found THEN r
      ELSE IF ~r.git THEN r
      ELSE IF fetched(r).dirty THEN fetched(r)
      ELSE IF ~fetched(r).upstream THEN fetched(r)
      ELSE synced(fetched(r))

\* the script starts: exit 1 when no Development directory is found
StartSync ==
  /\ sync.pc = "idle"
  /\ sync' = IF sync.base THEN [sync EXCEPT !.pc = "running", !.i = 1]
             ELSE [sync EXCEPT !.pc = "failed"]
  /\ lastOp' = "StartSync"
  /\ UNCHANGED <<inputs, outputs, exitStatus, run>>

\* one turn of the loop over REPOS
SyncNextRepo ==
  /\ sync.pc = "running"
  /\ sync.i <= Len(REPOS)
  /\ sync' = [sync EXCEPT !.repos[REPOS[sync.i]] = sync_repo(REPOS[sync.i]),
                          !.i = @ + 1]
  /\ lastOp' = "sync_repo"
  /\ UNCHANGED <<inputs, outputs, exitStatus, run>>

\* "Sync complete!"
FinishSync ==
  /\ sync.pc = "running"
  /\ sync.i > Len(REPOS)
  /\ sync' = [sync EXCEPT !.pc = "done"]
  /\ lastOp' = "FinishSync"
  /\ UNCHANGED <<inputs, outputs, exitStatus, run>>

\* the user edits a file of a repository, commits the edits, or a commit
\* reaches the remote from the other machine
EditWorkingTree ==
  \E repo \in DOMAIN sync.repos :
    /\ edits < MaxEdits
    /\ sync.repos[repo].found /\ sync.repos[repo].git /\ ~sync.repos[repo].dirty
    /\ sync' = [sync EXCEPT !.repos[repo].dirty = TRUE]
    /\ edits' = edits + 1
    /\ lastOp' = "EditWorkingTree"
    /\ UNCHANGED <<now, srcExists, srcMtime, docs, gitRepo, gitDiffOk, gitLog, docsRoot,
                   outputs, exitStatus, run>>

CommitWorkingTree ==
  \E repo \in DOMAIN sync.repos :
    /\ edits < MaxEdits
    /\ sync.repos[repo].found /\ sync.repos[repo].git /\ sync.repos[repo].dirty
    /\ sync' = [sync EXCEPT !.repos[repo].dirty = FALSE, !.repos[repo].ahead = @ + 1]
    /\ edits' = edits + 1
    /\ lastOp' = "CommitWorkingTree"
    /\ UNCHANGED <<now, srcExists, srcMtime, docs, gitRepo, gitDiffOk, gitLog, docsRoot,
                   outputs, exitStatus, run>>

RemoteCommit ==
  \E repo \in DOMAIN sync.repos :
    /\ edits < MaxEdits
    /\ sync.repos[repo].found /\ sync.repos[repo].git /\ sync.repos[repo].upstream
    /\ sync' = [sync EXCEPT !.repos[repo].unfetched = @ + 1]
    /\ edits' = edits + 1
    /\ lastOp' = "RemoteCommit"
    /\ UNCHANGED <<now, srcExists, srcMtime, docs, gitRepo, gitDiffOk, gitLog, docsRoot,
                   outputs, exitStatus, run>>

\* the repositories the script may find: a missing directory, a directory
\* that is no git repository, and git repositories of every state
RepoStates ==
  LET Git == [found : {TRUE}, git : {TRUE}, dirty : BOOLEAN, upstream : BOOLEAN,
              ahead : 0..1, behind : 0..1, unfetched : {0}, pulls : {0}, pushes : {0}]
      Off(found) == [found |-> found, git |-> FALSE, dirty |-> FALSE, upstream |-> FALSE,
                     ahead |-> 0, behind |-> 0, unfetched |-> 0, pulls |-> 0, pushes |-> 0]
  IN  Git \cup {Off(TRUE), Off(FALSE)}

InitSync ==
  /\ now = Now0
  /\ srcExists = {}
  /\ srcMtime = [f \in Paths |-> T0]
  /\ docs = [d \in DocNames |-> [mtime |-> T0, content |-> TextPlain]]
  /\ codePointers = NoPointers
  /\ gitRepo = TRUE
  /\ gitDiffOk = TRUE
  /\ gitLog = <<>>
  /\ docState = NoDocState
  /\ coverage = NoCoverage
  /\ validation = NoValidation
  /\ changeReport = NoChangeReport
  /\ resolved = NoResolved
  /\ docsRoot = TRUE
  /\ aux = NoAux
  /\ exitStatus = 0
  /\ run = NoRun
  /\ \E base \in BOOLEAN :
       \E repos \in [Range(REPOS) -> RepoStates] :
         sync = [pc |-> "idle", i |-> 0, base |-> base, repos |-> repos]
  /\ edits = 0
  /\ lastOp = "init"

NextSync ==
  \/ StartSync
  \/ SyncNextRepo
  \/ FinishSync
  \/ EditWorkingTree
  \/ CommitWorkingTree
  \/ RemoteCommit

SpecSync == InitSync /\ [][NextSync]_vars

\* C21: no step runs git pull or git push in a repository whose working
\* tree has uncommitted changes when the step looks at it
C21_DirtyIsNeitherPulledNorPushed ==
  [][ \A repo \in DOMAIN sync.repos :
        sync.repos[repo].dirty =>
          /\ sync'.repos[repo].pulls = sync.repos[repo].pulls
          /\ sync'.repos[repo].pushes = sync.repos[repo].pushes
          /\ sync'.repos[repo].ahead >= sync.repos[repo].ahead ]_vars

C21_Witness ==
  /\ lastOp = "sync_repo"
  /\ sync.i = 3
  /\ sync.repos[REPOS[1]].dirty
  /\ sync.repos[REPOS[1]].upstream
  /\ sync.repos[REPOS[1]].ahead = 1
  /\ sync.repos[REPOS[1]].behind = 0
  /\ sync.repos[REPOS[1]].pushes = 0
  /\ ~sync.repos[REPOS[2]].dirty
  /\ sync.repos[REPOS[2]].pushes = 1

----------------------------------------------------------------------------
(* The change report over histories in which one commit, or two, touch a   *)
(* file inside the window                                                  *)

WindowLogs ==
  LET only == Commit("c1", T0 + Day, <<Touch(SrcUtilsJs, 150, 0, FALSE)>>)
  IN  {<<only>>}
        \cup {<<Commit("c2", T0 + 2 * Day, <<Touch(SrcUtilsJs, a, r, FALSE)>>), only>> :
                a \in {0, 20, 101}, r \in {0, 1}}

InitWindow ==
  InitWith({{SrcUtilsJs, SrcFooTs}}, {[f \in Paths |-> T0 + 3 * Day]}, {TextPlain},
           ImpactPointerMaps, WindowLogs, BOOLEAN)

SpecWindow == InitWindow /\ [][NextImpact]_vars

\* the lines all the commits of the window add to and remove from a file
LinesInWindow(file) ==
  LET cs   == CommitsOf(gitLog, file)
      T(c) == CHOOSE t \in Range(c.files) : t.path = file
  IN  SumSeq([i \in 1..Len(cs) |-> T(cs[i]).added + T(cs[i]).removed])

BreakingInWindow(file) ==
  \E c \in Range(CommitsOf(gitLog, file)) : \E t \in Range(c.files) : t.path = file /\ t.sig

\* C23: the lines changed and the impact tier reported for a changed file
\* are those of all the commits of the window that touch it, a single
\* commit included
C23_AllCommitsOfWindowCounted ==
  (lastOp = "trackCodeChanges" /\ changeReport.present) =>
    \A i \in 1..Len(changeReport.affected_docs) :
      LET item == changeReport.affected_docs[i]
      IN  item.diffed =>
            /\ item.lines_changed = LinesInWindow(item.code_file)
            /\ item.impact = TierOfChange(LinesInWindow(item.code_file),
                                          BreakingInWindow(item.code_file))

----------------------------------------------------------------------------
(* The pipeline started in a directory that holds the DOC_STATE.json of an *)
(* earlier analyze-doc-state run                                           *)

EarlierDocState == run.pc = "idle" /\ lastOp = "init" /\ analyzeDocState

NextWriters == NextPipeline \/ EarlierDocState

SpecWriters == InitPipeline /\ [][NextWriters]_vars

\* C24: while a pipeline run is under way a report file changes only in the
\* step of its one writing stage: CODE_POINTERS.json in add-code-pointers,
\* CODE_CHANGES.json in track-code-changes, DOC_STATE.json in
\* analyze-doc-state, COVERAGE.json in analyze-coverage and VALIDATION.json
\* in validate-accuracy
C24_OneWriterPerReport ==
  [][ (run.pc = "running" /\ run' = run /\ lastOp' # "RemoveDocsRoot") =>
        /\ codePointers' # codePointers => lastOp' = "generateCodePointers"
        /\ changeReport' # changeReport => lastOp' = "trackCodeChanges"
        /\ docState' # docState => lastOp' = "analyzeDocState"
        /\ coverage' # coverage => lastOp' = "analyzeCoverage"
        /\ validation' # validation => lastOp' = "validateAccuracy" ]_vars

----------------------------------------------------------------------------
(* Re-resolution after the documents or the tree changed                   *)

\* an example that defines function run and imports s/u.js, and a second
\* example that imports s/u.js again
TextRepeat ==
  <<Line("heading", <<>>, 2),
    Line("fence", InfoJs, 1), Line("func", NameRun, 3), Line("close", <<>>, 1),
    Line("import", SrcUtilsJs, 4), Line("fence", InfoNone, 1),
    Line("prose", <<>>, 40),
    Line("fence", InfoJs, 1), Line("import", SrcUtilsJs, 4), Line("fence", InfoNone, 1)>>

FreshTexts == {TextPlain, TextImportPath, TextImportStem, TextRepeat}

\* a document is saved with another text
RewriteDoc ==
  \E d \in DocNames, t \in FreshTexts :
    /\ edits < MaxEdits
    /\ docs[d].content # t
    /\ docs' = [docs EXCEPT ![d] = [mtime |-> now, content |-> t]]
    /\ edits' = edits + 1
    /\ lastOp' = "RewriteDoc"
    /\ UNCHANGED <<now, srcExists, srcMtime, gitRepo, gitDiffOk, gitLog, docsRoot, outputs,
                 exitStatus, run, sync>>

InitFresh ==
  InitWith({ResolvePaths}, {[f \in Paths |-> T0]}, FreshTexts, {NoPointers}, {<<>>}, {TRUE})

\* the documents and the tree change only after a map was written
NextFresh ==
  \/ generateCodePointers
  \/ codePointers.kind = "generated" /\ DeleteSource
  \/ codePointers.kind = "generated" /\ RewriteDoc

SpecFresh == InitFresh /\ [][NextFresh]_vars

\* the (document, file, reason) triples of a map
PointersIn(mappings) ==
  UNION {UNION {{<<m.doc, e.file, r>> : r \in Range(e.reasons)} : e \in Range(m.files)}
           : m \in Range(mappings)}

\* the triples the documents and the tree resolve to as they are now
ResolvableNow ==
  UNION {{<<d, p.file, p.reason>> :
            p \in Range(matchReferencesToFiles(extractCodeReferences(docs[d].content),
                                               findSourceFiles))} : d \in DocNames}

NoRepeats(q) == \A i, j \in 1..Len(q) : q[i] = q[j] => i = j

----------------------------------------------------------------------------
(* extractCodeReferences called on a document's text                       *)

\* a block opened with ```c++ that defines function run, a sentence of
\* prose that says: import 's/u.js', and a block opened with ```js that
\* defines class Foo
TextCppProse ==
  <<Line("fence", InfoCpp, 1), Line("func", NameRun, 3), Line("close", <<>>, 1),
    Line("fence", InfoNone, 1),
    Line("import", SrcUtilsJs, 4),
    Line("fence", InfoJs, 1), Line("class", NameFoo, 3), Line("close", <<>>, 1),
    Line("fence", InfoNone, 1)>>

\* a block opened with ```js that is never closed
TextOpenFence ==
  <<Line("heading", <<>>, 2), Line("prose", <<>>, 30),
    Line("fence", InfoJs, 1), Line("import", SrcUtilsJs, 4)>>

ExtractTexts ==
  {TextPlain, TextImportPath, TextImportStem, TextCppFence, TextRepeat, TextCppProse,
   TextOpenFence}

callExtractCodeReferences ==
  /\ resolved' = [called |-> TRUE,
                  references |-> extractCodeReferences(docs[DocA].content),
                  sourceFiles |-> <<>>, pointers |-> <<>>]
  /\ lastOp' = "extractCodeReferences"
  /\ UNCHANGED <<inputs, codePointers, docState, coverage, validation, changeReport, aux,
                 exitStatus, run, sync>>

InitExtract ==
  InitWith({ResolvePaths}, {[f \in Paths |-> T0]}, ExtractTexts, {NoPointers}, {<<>>}, {TRUE})

NextExtract == callExtractCodeReferences \/ RewriteDoc

SpecExtract == InitExtract /\ [][NextExtract]_vars

\* the kind of line a reference of a type is read from
LineOf(type) == IF type = "function" THEN "func" ELSE type

\* the first line of a text that bears a reference, 0 when none does
FirstLine(content, ref) ==
  NextLine({j \in 1..Len(content) :
              content[j].t = LineOf(ref.type) /\ content[j].v = ref.value}, 1)

\* C26: the list extractCodeReferences returns holds no (type, value) pair
\* twice, and its entries stand in the order in which they first occur in
\* the text
C26_NoRepeatsInTextOrder ==
  lastOp = "extractCodeReferences" =>
    /\ NoRepeats(resolved.references)
    /\ \A i, j \in 1..Len(resolved.references) :
         i < j => FirstLine(docs[DocA].content, resolved.references[i])
                    <= FirstLine(docs[DocA].content, resolved.references[j])

RECURSIVE OpenAfter(_, _)
\* whether a fenced region is open after line k: a fence opens a region
\* when none is open, and a fence without an info string closes the open one
OpenAfter(content, k) ==
  IF k = 0 THEN FALSE
  ELSE LET was == OpenAfter(content, k - 1)
       IN  IF IsFence(content[k])
           THEN IF was THEN content[k].v # <<>> ELSE TRUE
           ELSE was

\* the lines inside the fenced regions of a text
RegionLines(content) ==
  {j \in 1..Len(content) : ~IsFence(content[j]) /\ OpenAfter(content, j - 1)}

\* C27: the call returns, and every reference it returns is borne by a line
\* inside a fenced region of the text, whatever the info strings of the
\* fences are and whether or not the last fence is closed
C27_ReferencesFromRegionsOnly ==
  lastOp = "extractCodeReferences" =>
    /\ resolved.called
    /\ \A ref \in Range(resolved.references) :
         \E j \in RegionLines(docs[DocA].content) :
           /\ docs[DocA].content[j].t = LineOf(ref.type)
           /\ docs[DocA].content[j].v = ref.value

----------------------------------------------------------------------------
(* The two lists of a coverage report                                      *)

UndocumentedPaths == [i \in 1..Len(coverage.undocumented) |-> coverage.undocumented[i].file]

\* C28: in a coverage report every file of the tree with an allow-listed
\* extension stands once on the documented list or once on the undocumented
\* list and never on both, the two counters are the lengths of the lists,
\* and they add up to total_files
C28_ListsPartitionTheFiles ==
  (lastOp = "analyzeCoverage" /\ exitStatus = 0) =>
    /\ Range(coverage.documented) \cup Range(UndocumentedPaths) = CodeFiles
    /\ Range(coverage.documented) \cap Range(UndocumentedPaths) = {}
    /\ NoRepeats(coverage.documented)
    /\ NoRepeats(UndocumentedPaths)
    /\ coverage.documented_files = Len(coverage.documented)
    /\ coverage.undocumented_files = Len(coverage.undocumented)
    /\ coverage.documented_files + coverage.undocumented_files = coverage.total_files

\* a report with both lists filled, one documented file being matched by
\* its name inside another listed path
C28_Witness ==
  /\ lastOp = "analyzeCoverage"
  /\ exitStatus = 0
  /\ edits > 0
  /\ coverage.undocumented # <<>>
  /\ \E f \in Range(coverage.documented) :
       ~isDocumentedExact(Cwd \o f, documentedFilesOf(codePointers))

----------------------------------------------------------------------------
(* The counters of a validation report                                     *)

\* C29: in a validation report passed lies between 0 and total_checks,
\* passed and failed add up to total_checks, and the accuracy score lies
\* between 0 and 1, however many error findings there are
C29_CountersInRange ==
  (lastOp = "validateAccuracy" /\ exitStatus = 0) =>
    /\ 0 <= validation.passed
    /\ validation.passed <= validation.total_checks
    /\ validation.passed + validation.failed = validation.total_checks
    /\ 0 <= validation.accuracy_score.num
    /\ validation.accuracy_score.num <= validation.accuracy_score.den

----------------------------------------------------------------------------
(* The tracker's marks in the course of a pipeline run                     *)

\* a.md#s points to s/u.js, which was last saved a day, or three days and
\* an hour, after the documents
InitMarked ==
  InitWith({{SrcUtilsJs, SrcFooTs}},
           {[f \in Paths |-> T0 + Day], [f \in Paths |-> T0 + 3 * Day + 1]},
           PipelineTexts,
           {EntriesFile(<<[key |-> KeyAS, files |-> <<SrcUtilsJs>>,
                           lastValidated |-> Null]>>)},
           PipelineLogs, BOOLEAN)

SpecMarked == InitMarked /\ [][NextWriters]_vars

\* the entry of document d carries the mark of track-code-changes: in a
\* git repository the change report lists d for a file changed inside the
\* window, outside one a linked file is newer than d
TrackerMarked(d) ==
  /\ d \in DOMAIN docState.files
  /\ docState.files[d].validationNeeded
  /\ docState.files[d].status = "stale"
  /\ IF gitRepo
     THEN /\ changeReport.present
          /\ \E i \in 1..Len(changeReport.affected_docs) :
               d \in Range(changeReport.affected_docs[i].affected_documentation)
     ELSE ChangedAfter(d) # {}

\* C30: a document marked by stage 1 of a run keeps validationNeeded in the
\* DOC_STATE.json that stage 2 writes, the last stage of the run to write
\* the file
C30_MarkKeptByLaterStages ==
  [][ (AtStage(2) /\ lastOp' = "analyzeDocState" /\ exitStatus' = 0) =>
        \A d \in DocNames :
          TrackerMarked(d) => docState'.files[d].validationNeeded ]_vars

====
